---- MODULE Spec2Model ----
(***************************************************************************)
(* Solunar / pike-activity pipeline of weather-wallpaper.                  *)
(*                                                                         *)
(* Instants are JavaScript Date values, i.e. integer milliseconds; the     *)
(* reference day starts at instant 0.                                      *)
(***************************************************************************)
EXTENDS Integers, Sequences, FiniteSets, TLC

VARIABLES weather, solunar, currentTime, activity,
          periods, now, nextPeriod,
          provider,
          scoring,
          target, countdown,
          request, pc, fetched, response,
          call, result,
          minutesUntil, display,
          component, timer, pending

vars == <<weather, solunar, currentTime, activity,
          periods, now, nextPeriod, provider,
          scoring, target, countdown, request, pc, fetched, response,
          call, result, minutesUntil, display, component, timer, pending>>

\* the variables of the countdown helper and of the GET handler
countdownVars == <<target, countdown>>
handlerVars == <<request, pc, fetched, response>>
\* a library function called on its own: the call and what it returned
libraryVars == <<call, result>>
\* what the scorer and the display make of a period list
presentationVars == <<minutesUntil, display>>
\* the LocationSearch component, its debounce timer and its requests in flight
searchVars == <<component, timer, pending>>

(***************************************************************************)
(* Time arithmetic                                                         *)
(***************************************************************************)
MinuteMs == 1000 * 60
HourMs == 60 * MinuteMs
DayMs == 24 * HourMs

\* the instant h:m:s of the reference day
HMS(h, m, s) == ((h * 60 + m) * 60 + s) * 1000

\* Math.floor(a / b) for b > 0
Floor(a, b) == a \div b

Min(a, b) == IF a < b THEN a ELSE b
Max(a, b) == IF a > b THEN a ELSE b

\* the number Infinity, above every minute count the model produces
Infinity == 10 * DayMs

\* a value that is absent (null in the source)
Null == [status |-> "null"]
\* a result that has not been computed yet
None == [status |-> "none"]

\* the parts of the state a specification does not use stay as they are here
IdleScorer ==
  /\ weather = None
  /\ solunar = None
  /\ currentTime = 0
  /\ activity = None
  /\ scoring = None
  /\ provider = None
IdlePeriods == periods = <<>> /\ nextPeriod = None
IdleCountdown == target = 0 /\ countdown = None
IdleHandler == request = None /\ pc = "idle" /\ fetched = <<>> /\ response = None
IdleLibrary == call = None /\ result = None
\* what a library function returned
Returned(v) == [status |-> "returned", value |-> v]
IdlePresentation == minutesUntil = None /\ display = None
IdleSearch == component = None /\ timer = None /\ pending = {}

(***************************************************************************)
(* Bounds                                                                  *)
(***************************************************************************)
\* longest period list handed to the scorer and to the helpers
MaxPeriods == 2

RECURSIVE SeqsUpTo(_, _)
SeqsUpTo(S, n) ==
  IF n = 0 THEN {<<>>}
  ELSE LET shorter == SeqsUpTo(S, n - 1)
       IN shorter \cup {Append(s, x) : s \in {t \in shorter : Len(t) = n - 1}, x \in S}

(***************************************************************************)
(* Activity scorer (lib/activity.ts)                                       *)
(***************************************************************************)
\* slip: a period is no longer ongoing at the instant it ends
RECURSIVE MinutesUntilFromOpenEnd(_, _, _)
MinutesUntilFromOpenEnd(ps, t, i) ==
  IF i > Len(ps) THEN [minutes |-> Infinity, isOngoing |-> FALSE]
  ELSE IF t >= ps[i].start /\ t < ps[i].end
       THEN [minutes |-> 0, isOngoing |-> TRUE]
  ELSE IF ps[i].start > t
       THEN [minutes |-> Floor(ps[i].start - t, 1000 * 60), isOngoing |-> FALSE]
  ELSE MinutesUntilFromOpenEnd(ps, t, i + 1)

getMinutesUntilPeriodOpenEnd(ps, t) == MinutesUntilFromOpenEnd(ps, t, 1)

RECURSIVE MinutesUntilFrom(_, _, _)
MinutesUntilFrom(ps, t, i) ==
  IF i > Len(ps) THEN [minutes |-> Infinity, isOngoing |-> FALSE]
  ELSE IF t >= ps[i].start /\ t <= ps[i].end
       THEN [minutes |-> 0, isOngoing |-> TRUE]
  ELSE IF ps[i].start > t
       THEN [minutes |-> Floor(ps[i].start - t, 1000 * 60), isOngoing |-> FALSE]
  ELSE MinutesUntilFrom(ps, t, i + 1)

getMinutesUntilPeriod(ps, t) == MinutesUntilFrom(ps, t, 1)

twoHoursMs == 2 * 60 * 60 * 1000

\* slip: the ends of the two windows are left out
checkGoldenHourExclusive(t, sunrise, sunset) ==
  LET sunriseEnd == sunrise + twoHoursMs
      sunsetStart == sunset - twoHoursMs
  IN IF t > sunrise /\ t < sunriseEnd
       THEN [isGolden |-> TRUE, type |-> "morning"]
     ELSE IF t > sunsetStart /\ t < sunset
       THEN [isGolden |-> TRUE, type |-> "evening"]
     ELSE [isGolden |-> FALSE, type |-> "null"]

checkGoldenHour(t, sunrise, sunset) ==
  LET sunriseEnd == sunrise + twoHoursMs
      sunsetStart == sunset - twoHoursMs
  IN IF t >= sunrise /\ t <= sunriseEnd
       THEN [isGolden |-> TRUE, type |-> "morning"]
     ELSE IF t >= sunsetStart /\ t <= sunset
       THEN [isGolden |-> TRUE, type |-> "evening"]
     ELSE [isGolden |-> FALSE, type |-> "null"]

getGoldenHours(sunrise, sunset) ==
  [morningStart |-> sunrise,
   morningEnd |-> sunrise + twoHoursMs,
   eveningStart |-> sunset - twoHoursMs,
   eveningEnd |-> sunset]

\* slip: the table stops at score 4
configWithoutFive ==
  [s \in 0..4 |->
     CASE s = 0 -> [label |-> "Mauvais", color |-> "#dc2626"]
       [] s = 1 -> [label |-> "Faible", color |-> "#ef4444"]
       [] s = 2 -> [label |-> "Moyen", color |-> "#f97316"]
       [] s = 3 -> [label |-> "Bon", color |-> "#fbbf24"]
       [] s = 4 -> [label |-> "Très bon", color |-> "#84cc16"]]

\* the score -> label/colour table
config ==
  [s \in 0..5 |->
     CASE s = 0 -> [label |-> "Mauvais", color |-> "#dc2626"]
       [] s = 1 -> [label |-> "Faible", color |-> "#ef4444"]
       [] s = 2 -> [label |-> "Moyen", color |-> "#f97316"]
       [] s = 3 -> [label |-> "Bon", color |-> "#fbbf24"]
       [] s = 4 -> [label |-> "Très bon", color |-> "#84cc16"]
       [] s = 5 -> [label |-> "Excellent", color |-> "#22c55e"]]

\* slip: rising pressure is weighted like stable pressure
PressureRuleRisingTwo(acc, w) ==
  IF w.pressureTrend = "stable"
    THEN [score |-> acc.score + 2, factors |-> Append(acc.factors, "Pression stable")]
  ELSE IF w.pressureTrend = "rising"
    THEN [score |-> acc.score + 2, factors |-> Append(acc.factors, "Pression en hausse")]
  ELSE IF w.pressureTrend = "falling"
    THEN [score |-> acc.score - 1, factors |-> Append(acc.factors, "Pression en baisse")]
  ELSE acc

\* rule 1: pressure trend
PressureRule(acc, w) ==
  IF w.pressureTrend = "stable"
    THEN [score |-> acc.score + 2, factors |-> Append(acc.factors, "Pression stable")]
  ELSE IF w.pressureTrend = "rising"
    THEN [score |-> acc.score + 1, factors |-> Append(acc.factors, "Pression en hausse")]
  ELSE IF w.pressureTrend = "falling"
    THEN [score |-> acc.score - 1, factors |-> Append(acc.factors, "Pression en baisse")]
  ELSE acc

\* slip: the minor period is tested on its own, not as a last alternative
SolunarRuleMinorToo(acc, sol, t) ==
  LET majorStatus == getMinutesUntilPeriod(sol.major, t)
      minorStatus == getMinutesUntilPeriod(sol.minor, t)
      afterMajor ==
        IF majorStatus.isOngoing \/ majorStatus.minutes <= 30
          THEN [score |-> acc.score + 2, factors |-> Append(acc.factors, "Période majeure")]
        ELSE IF majorStatus.minutes <= 120
          THEN [score |-> acc.score + 1, factors |-> Append(acc.factors, "Majeure proche")]
        ELSE acc
  IN IF minorStatus.isOngoing \/ minorStatus.minutes <= 30
       THEN [score |-> afterMajor.score + 1,
             factors |-> Append(afterMajor.factors, "Période mineure")]
     ELSE afterMajor

\* rule 2: solunar periods
SolunarRule(acc, sol, t) ==
  LET majorStatus == getMinutesUntilPeriod(sol.major, t)
      minorStatus == getMinutesUntilPeriod(sol.minor, t)
  IN IF majorStatus.isOngoing \/ majorStatus.minutes <= 30
       THEN [score |-> acc.score + 2, factors |-> Append(acc.factors, "Période majeure")]
     ELSE IF majorStatus.minutes <= 120
       THEN [score |-> acc.score + 1, factors |-> Append(acc.factors, "Majeure proche")]
     ELSE IF minorStatus.isOngoing \/ minorStatus.minutes <= 30
       THEN [score |-> acc.score + 1, factors |-> Append(acc.factors, "Période mineure")]
     ELSE acc

\* rule 3: golden hours
GoldenRule(acc, goldenHour) ==
  IF goldenHour.isGolden
    THEN [score |-> acc.score + 1,
          factors |-> Append(acc.factors,
                             IF goldenHour.type = "morning"
                               THEN "Golden hour matin" ELSE "Golden hour soir")]
  ELSE acc

\* slip: 30 itself is already too strong
WindRuleThirtyInclusive(acc, w) ==
  LET windSpeed == w.current.windSpeed
  IN IF windSpeed >= 8 /\ windSpeed <= 20
       THEN [score |-> acc.score + 1, factors |-> Append(acc.factors, "Vent favorable")]
     ELSE IF windSpeed >= 30
       THEN [score |-> acc.score - 1, factors |-> Append(acc.factors, "Vent trop fort")]
     ELSE acc

\* slip: the strong-wind branch starts right above the favourable range
WindRuleAboveTwenty(acc, w) ==
  LET windSpeed == w.current.windSpeed
  IN IF windSpeed >= 8 /\ windSpeed <= 20
       THEN [score |-> acc.score + 1, factors |-> Append(acc.factors, "Vent favorable")]
     ELSE IF windSpeed > 20
       THEN [score |-> acc.score - 1, factors |-> Append(acc.factors, "Vent trop fort")]
     ELSE acc

\* rule 4: wind
WindRule(acc, w) ==
  LET windSpeed == w.current.windSpeed
  IN IF windSpeed >= 8 /\ windSpeed <= 20
       THEN [score |-> acc.score + 1, factors |-> Append(acc.factors, "Vent favorable")]
     ELSE IF windSpeed > 30
       THEN [score |-> acc.score - 1, factors |-> Append(acc.factors, "Vent trop fort")]
     ELSE acc

\* slip: 70 itself counts as overcast
CloudRuleInclusive(acc, w) ==
  IF w.current.cloudCover >= 70
    THEN [score |-> acc.score + 1, factors |-> Append(acc.factors, "Temps couvert")]
  ELSE acc

\* rule 5: cloud cover
CloudRule(acc, w) ==
  IF w.current.cloudCover > 70
    THEN [score |-> acc.score + 1, factors |-> Append(acc.factors, "Temps couvert")]
  ELSE acc

\* slip: the upper clamp is missing
NormalizeLowerOnly(score) == Max(0, score)

\* score = Math.max(0, Math.min(5, score))
Normalize(score) == Max(0, Min(5, score))

\* slip: the last factor pushed is reported
MainFactorLast(factors) ==
  IF Len(factors) > 0 THEN factors[Len(factors)] ELSE "Conditions neutres"

\* factors[0] || 'Conditions neutres'
MainFactor(factors) ==
  IF Len(factors) > 0 THEN factors[1] ELSE "Conditions neutres"

calculatePikeActivity(w, sol, t) ==
  LET a0 == [score |-> 2, factors |-> <<>>]
      a1 == PressureRule(a0, w)
      a2 == SolunarRule(a1, sol, t)
      goldenHour == checkGoldenHour(t, sol.sun.rise, sol.sun.set)
      a3 == GoldenRule(a2, goldenHour)
      a4 == WindRule(a3, w)
      a5 == CloudRule(a4, w)
      score == Normalize(a5.score)
  IN IF score \in DOMAIN config
       THEN [status |-> "ok",
             score |-> score,
             label |-> config[score].label,
             color |-> config[score].color,
             mainFactor |-> MainFactor(a5.factors),
             isGoldenHour |-> goldenHour.isGolden]
     \* config[score] is undefined: reading .label throws
     ELSE [status |-> "TypeError"]

\* the locals of calculatePikeActivity when it returns: the two solunar
\* statuses, the golden-hour check, the factors pushed, and the value of
\* `score` at the start and after each of the five rules
PikeActivityLocals(w, sol, t) ==
  LET a0 == [score |-> 2, factors |-> <<>>]
      a1 == PressureRule(a0, w)
      a2 == SolunarRule(a1, sol, t)
      goldenHour == checkGoldenHour(t, sol.sun.rise, sol.sun.set)
      a3 == GoldenRule(a2, goldenHour)
      a4 == WindRule(a3, w)
      a5 == CloudRule(a4, w)
  IN [majorStatus |-> getMinutesUntilPeriod(sol.major, t),
      minorStatus |-> getMinutesUntilPeriod(sol.minor, t),
      goldenHour |-> goldenHour,
      factors |-> a5.factors,
      scores |-> <<a0.score, a1.score, a2.score, a3.score, a4.score, a5.score>>,
      factorCounts |-> <<Len(a0.factors), Len(a1.factors), Len(a2.factors),
                         Len(a3.factors), Len(a4.factors), Len(a5.factors)>>]

(***************************************************************************)
(* Scorer specification: the inputs are drawn in the initial state and     *)
(* the one action applies calculatePikeActivity to them.                   *)
(***************************************************************************)
PressureTrends == {"stable", "rising", "falling", "unknown"}
WindSpeeds == {7, 8, 15, 20, 21, 30, 31}
CloudCovers == {70, 71, 80}

Weathers ==
  {[pressureTrend |-> p, current |-> [windSpeed |-> ws, cloudCover |-> cc]] :
     p \in PressureTrends, ws \in WindSpeeds, cc \in CloudCovers}

MajorCandidates ==
  {[start |-> HMS(10, 0, 0), end |-> HMS(12, 0, 0), type |-> "transit"],
   [start |-> HMS(16, 30, 0), end |-> HMS(18, 30, 0), type |-> "nadir"]}

MinorCandidates ==
  {[start |-> HMS(13, 30, 0), end |-> HMS(14, 30, 0), type |-> "moonrise"],
   [start |-> HMS(2, 0, 0), end |-> HMS(3, 0, 0), type |-> "moonset"]}

SunPairs ==
  {[rise |-> HMS(6, 0, 0), set |-> HMS(18, 0, 0)],
   [rise |-> HMS(6, 0, 0), set |-> HMS(9, 0, 0)]}

ScorerTimes ==
  {HMS(7, 59, 59), HMS(8, 0, 1), HMS(9, 29, 59), HMS(11, 0, 0),
   HMS(13, 0, 0), HMS(14, 0, 0), HMS(17, 0, 0),
   \* the ends of the golden-hour windows
   HMS(5, 59, 59), HMS(6, 0, 0), HMS(8, 0, 0), HMS(16, 0, 0), HMS(18, 0, 0), HMS(18, 0, 1),
   \* 31 and 121 minutes before a major period, 31 before a minor one, and
   \* the last instant of a minor period
   HMS(9, 29, 0), HMS(7, 59, 0), HMS(12, 59, 0), HMS(14, 30, 0)}

NoMoon == [rise |-> Null, set |-> Null]

ScorerSolunars ==
  {[moon |-> NoMoon, sun |-> sp, major |-> ma, minor |-> mi] :
     sp \in SunPairs,
     ma \in SeqsUpTo(MajorCandidates, MaxPeriods),
     mi \in SeqsUpTo(MinorCandidates, MaxPeriods)}

InitActivity ==
  /\ weather \in Weathers
  /\ solunar \in ScorerSolunars
  /\ currentTime \in ScorerTimes
  /\ activity = None
  /\ periods = <<>>
  /\ now = 0
  /\ nextPeriod = None
  /\ provider = None
  /\ scoring = None
  /\ IdleCountdown
  /\ IdleHandler
  /\ IdleLibrary
  /\ IdlePresentation
  /\ IdleSearch

CalculatePikeActivity ==
  /\ activity = None
  /\ solunar # None
  /\ activity' = calculatePikeActivity(weather, solunar, currentTime)
  /\ scoring' = PikeActivityLocals(weather, solunar, currentTime)
  /\ UNCHANGED <<weather, solunar, currentTime, periods, now, nextPeriod, provider>>
  /\ UNCHANGED <<countdownVars, handlerVars>>
  /\ UNCHANGED <<libraryVars, presentationVars, searchVars>>

NextActivity == CalculatePikeActivity

SpecActivity == InitActivity /\ [][NextActivity]_vars

(***************************************************************************)
(* Properties of the scorer, stated over the inputs held in the state      *)
(***************************************************************************)
Scored == activity # None

\* indices of the periods that are ongoing or still to come at t
Relevant(ps, t) ==
  {i \in 1..Len(ps) : (ps[i].start <= t /\ t <= ps[i].end) \/ ps[i].start > t}

FirstRelevant(ps, t) ==
  CHOOSE i \in Relevant(ps, t) : \A j \in Relevant(ps, t) : i <= j

PeriodOngoing(ps, t) ==
  /\ Relevant(ps, t) # {}
  /\ ps[FirstRelevant(ps, t)].start <= t
  /\ t <= ps[FirstRelevant(ps, t)].end

\* whole minutes to the first relevant period, -1 standing for "no period"
PeriodDistance(ps, t) ==
  IF Relevant(ps, t) = {} THEN -1
  ELSE IF PeriodOngoing(ps, t) THEN 0
  ELSE (ps[FirstRelevant(ps, t)].start - t) \div 60000

Within(ps, t, m) ==
  PeriodOngoing(ps, t) \/ (PeriodDistance(ps, t) >= 0 /\ PeriodDistance(ps, t) <= m)

InMorningGolden == solunar.sun.rise <= currentTime /\ currentTime <= solunar.sun.rise + 7200000
InEveningGolden == solunar.sun.set - 7200000 <= currentTime /\ currentTime <= solunar.sun.set

dPressure ==
  CASE weather.pressureTrend = "stable" -> 2
    [] weather.pressureTrend = "rising" -> 1
    [] weather.pressureTrend = "falling" -> -1
    [] OTHER -> 0

dSolunar ==
  CASE Within(solunar.major, currentTime, 30) -> 2
    [] ~Within(solunar.major, currentTime, 30) /\ Within(solunar.major, currentTime, 120) -> 1
    [] ~Within(solunar.major, currentTime, 120) /\ Within(solunar.minor, currentTime, 30) -> 1
    [] OTHER -> 0

dGolden == IF InMorningGolden \/ InEveningGolden THEN 1 ELSE 0

dWind ==
  CASE 8 <= weather.current.windSpeed /\ weather.current.windSpeed <= 20 -> 1
    [] weather.current.windSpeed > 30 -> -1
    [] OTHER -> 0

dCloud == IF weather.current.cloudCover > 70 THEN 1 ELSE 0

RawScore == 2 + dPressure + dSolunar + dGolden + dWind + dCloud

\* C1: whatever the inputs, calculatePikeActivity returns normally and its
\* score is an integer between 0 and 5.
C1_ScoreInRange ==
  Scored => (activity.status = "ok" /\ activity.score \in 0..5)

\* a run in which the sum of the rules had to be clamped
C1_Witness ==
  Scored /\ activity.status = "ok" /\ RawScore = 9 /\ activity.score = 5

\* C2: the score is min(5, max(0, 2 + the five rule deltas)), the cloud delta
\* being +1 strictly above 70; stable pressure, no solunar period in reach,
\* no golden hour, wind 15 and cloud cover 80 give raw 6, score 5 and the
\* stable-pressure factor.
C2_ScoreIsClampedSum ==
  Scored =>
    /\ activity.score = Min(5, Max(0, RawScore))
    /\ ( /\ weather.pressureTrend = "stable"
         /\ dSolunar = 0
         /\ dGolden = 0
         /\ weather.current.windSpeed = 15
         /\ weather.current.cloudCover = 80 )
       => (RawScore = 6 /\ activity.score = 5 /\ activity.mainFactor = "Pression stable")

C2_Witness ==
  /\ Scored
  /\ weather.pressureTrend = "stable"
  /\ dSolunar = 0
  /\ dGolden = 0
  /\ weather.current.windSpeed = 15
  /\ weather.current.cloudCover = 80
  /\ activity.score = 5

PressureLabel ==
  CASE weather.pressureTrend = "stable" -> "Pression stable"
    [] weather.pressureTrend = "rising" -> "Pression en hausse"
    [] weather.pressureTrend = "falling" -> "Pression en baisse"

\* the label of the first rule that fired, in the order pressure, solunar,
\* golden hour, wind, cloud cover
FirstFiredLabel ==
  CASE dPressure # 0 -> PressureLabel
    [] dPressure = 0 /\ dSolunar = 2 -> "Période majeure"
    [] dPressure = 0 /\ dSolunar = 1 /\ Within(solunar.major, currentTime, 120) -> "Majeure proche"
    [] dPressure = 0 /\ dSolunar = 1 /\ ~Within(solunar.major, currentTime, 120) -> "Période mineure"
    [] dPressure = 0 /\ dSolunar = 0 /\ InMorningGolden -> "Golden hour matin"
    [] dPressure = 0 /\ dSolunar = 0 /\ ~InMorningGolden /\ InEveningGolden -> "Golden hour soir"
    [] dPressure = 0 /\ dSolunar = 0 /\ dGolden = 0 /\ dWind = 1 -> "Vent favorable"
    [] dPressure = 0 /\ dSolunar = 0 /\ dGolden = 0 /\ dWind = -1 -> "Vent trop fort"
    [] dPressure = 0 /\ dSolunar = 0 /\ dGolden = 0 /\ dWind = 0 /\ dCloud = 1 -> "Temps couvert"
    [] OTHER -> "Conditions neutres"

\* C3: mainFactor is the label of the first rule that fired in the order
\* pressure, solunar, golden hour, wind, cloud cover; with a recognised
\* pressure trend it is the pressure label whatever the other rules add.
C3_MainFactorIsFirstFired ==
  Scored =>
    /\ activity.mainFactor = FirstFiredLabel
    /\ weather.pressureTrend \in {"stable", "rising", "falling"}
         => activity.mainFactor = PressureLabel

\* falling pressure (-1) together with an ongoing major period (+2)
C3_Witness ==
  /\ Scored
  /\ weather.pressureTrend = "falling"
  /\ PeriodOngoing(solunar.major, currentTime)
  /\ activity.mainFactor = "Pression en baisse"

NoRuleFired ==
  /\ weather.pressureTrend \notin {"stable", "rising", "falling"}
  /\ dSolunar = 0
  /\ ~InMorningGolden
  /\ ~InEveningGolden
  /\ ~(8 <= weather.current.windSpeed /\ weather.current.windSpeed <= 20)
  /\ ~(weather.current.windSpeed > 30)
  /\ weather.current.cloudCover <= 70

\* C4: the neutral fallback factor is reported exactly when no rule fired,
\* and then the result is complete: score 2 with the label and colour of
\* score 2, and no error.
C4_NeutralFallback ==
  Scored =>
    /\ activity.status = "ok"
    /\ (activity.mainFactor = "Conditions neutres") <=> NoRuleFired
    /\ NoRuleFired =>
         (activity.score = 2 /\ activity.label = "Moyen" /\ activity.color = "#f97316")

C4_Witness ==
  Scored /\ NoRuleFired /\ activity.mainFactor = "Conditions neutres"

\* the table of the specification, with the labels as the source spells them
ScoreTable ==
  <<[label |-> "Mauvais", color |-> "#dc2626"],
    [label |-> "Faible", color |-> "#ef4444"],
    [label |-> "Moyen", color |-> "#f97316"],
    [label |-> "Bon", color |-> "#fbbf24"],
    [label |-> "Très bon", color |-> "#84cc16"],
    [label |-> "Excellent", color |-> "#22c55e"]>>

\* C5: label and colour are the entries of the fixed six-entry table for
\* the clamped score, and the lookup is defined for every score produced.
C5_LabelColourFromTable ==
  Scored =>
    /\ activity.status = "ok"
    /\ activity.score + 1 \in DOMAIN ScoreTable
    /\ activity.label = ScoreTable[activity.score + 1].label
    /\ activity.color = ScoreTable[activity.score + 1].color

\* the lowest score: falling pressure and too much wind
C5_Witness ==
  Scored /\ activity.status = "ok" /\ activity.score = 0 /\ activity.label = "Mauvais"

(***************************************************************************)
(* Presentation helpers (lib/helpers.ts): next-period resolution           *)
(***************************************************************************)
\* slip: a period is ongoing only strictly inside its bounds
RECURSIVE NextPeriodFromStrict(_, _, _)
NextPeriodFromStrict(ps, t, i) ==
  IF i > Len(ps) THEN Null
  ELSE IF ps[i].start < t /\ ps[i].end > t
       THEN [status |-> "ongoing", period |-> ps[i]]
  ELSE IF ps[i].start > t
       THEN [status |-> "upcoming", period |-> ps[i]]
  ELSE NextPeriodFromStrict(ps, t, i + 1)

RECURSIVE NextPeriodFrom(_, _, _)
NextPeriodFrom(ps, t, i) ==
  IF i > Len(ps) THEN Null
  ELSE IF ps[i].start <= t /\ ps[i].end >= t
       THEN [status |-> "ongoing", period |-> ps[i]]
  ELSE IF ps[i].start > t
       THEN [status |-> "upcoming", period |-> ps[i]]
  ELSE NextPeriodFrom(ps, t, i + 1)

getNextPeriodStrict(ps, t) == NextPeriodFromStrict(ps, t, 1)

getNextPeriod(ps, t) == NextPeriodFrom(ps, t, 1)

(***************************************************************************)
(* Helper specification: any period list (ordered or not) and any instant  *)
(***************************************************************************)
HelperCandidates ==
  {[start |-> HMS(10, 0, 0), end |-> HMS(10, 30, 0), type |-> "moonrise"],
   [start |-> HMS(14, 0, 0), end |-> HMS(14, 30, 0), type |-> "moonset"],
   [start |-> HMS(10, 15, 0), end |-> HMS(15, 0, 0), type |-> "transit"],
   [start |-> HMS(9, 0, 0), end |-> HMS(9, 0, 0), type |-> "nadir"]}

HelperTimes ==
  {HMS(8, 59, 59), HMS(9, 0, 0), HMS(10, 0, 0), HMS(10, 15, 0), HMS(10, 30, 0),
   HMS(10, 30, 1), HMS(14, 30, 0), HMS(15, 0, 0), HMS(15, 0, 1)}

InitPeriods ==
  /\ periods \in SeqsUpTo(HelperCandidates, MaxPeriods)
  /\ now \in HelperTimes
  /\ nextPeriod = None
  /\ weather = None
  /\ solunar = None
  /\ currentTime = 0
  /\ activity = None
  /\ provider = None
  /\ scoring = None
  /\ IdleCountdown
  /\ IdleHandler
  /\ IdleLibrary
  /\ IdlePresentation
  /\ IdleSearch

GetNextPeriod ==
  /\ nextPeriod = None
  /\ nextPeriod' = getNextPeriod(periods, now)
  /\ UNCHANGED <<periods, now, weather, solunar, currentTime, activity, provider>>
  /\ UNCHANGED <<scoring, countdownVars, handlerVars>>
  /\ UNCHANGED <<libraryVars, presentationVars, searchVars>>

\* the scorer's reading of the same list at the same instant
GetMinutesUntilPeriod ==
  /\ minutesUntil = None
  /\ minutesUntil' = getMinutesUntilPeriod(periods, now)
  /\ UNCHANGED <<periods, now, nextPeriod, display>>
  /\ UNCHANGED <<weather, solunar, currentTime, activity, provider>>
  /\ UNCHANGED <<scoring, countdownVars, handlerVars, libraryVars, searchVars>>

NextPeriods == GetNextPeriod \/ GetMinutesUntilPeriod

SpecPeriods == InitPeriods /\ [][NextPeriods]_vars

(***************************************************************************)
(* Properties of getNextPeriod                                             *)
(***************************************************************************)
Resolved == nextPeriod # None

IsChronological(ps) ==
  \A i \in 1..Len(ps) : \A j \in 1..Len(ps) : i < j => ps[i].start <= ps[j].start

Containing(ps, t) == {i \in 1..Len(ps) : ps[i].start <= t /\ t <= ps[i].end}
StartingAfter(ps, t) == {i \in 1..Len(ps) : ps[i].start > t}
Lowest(S) == CHOOSE i \in S : \A j \in S : i <= j

ExamplePeriods ==
  <<[start |-> HMS(10, 0, 0), end |-> HMS(10, 30, 0), type |-> "moonrise"],
    [start |-> HMS(14, 0, 0), end |-> HMS(14, 30, 0), type |-> "moonset"]>>

\* C6: on a list ordered by start, getNextPeriod returns the first period
\* containing now as ongoing, else the first period starting after now as
\* upcoming, and null exactly when every period ended before now; the list
\* [10:00-10:30, 14:00-14:30] gives ongoing/first at 10:15, upcoming/first
\* at 09:00 and null at 15:00.
C6_NextPeriodOnOrderedList ==
  (Resolved /\ IsChronological(periods)) =>
    /\ Containing(periods, now) # {} =>
         nextPeriod = [status |-> "ongoing",
                       period |-> periods[Lowest(Containing(periods, now))]]
    /\ (Containing(periods, now) = {} /\ StartingAfter(periods, now) # {}) =>
         nextPeriod = [status |-> "upcoming",
                       period |-> periods[Lowest(StartingAfter(periods, now))]]
    /\ (nextPeriod = Null) <=> (\A i \in 1..Len(periods) : periods[i].end < now)
    /\ (periods = ExamplePeriods /\ now = HMS(10, 15, 0)) =>
         nextPeriod = [status |-> "ongoing", period |-> ExamplePeriods[1]]
    /\ (periods = ExamplePeriods /\ now = HMS(9, 0, 0)) =>
         nextPeriod = [status |-> "upcoming", period |-> ExamplePeriods[1]]
    /\ (periods = ExamplePeriods /\ now = HMS(15, 0, 0)) => nextPeriod = Null

\* an ordered list whose second period is the one containing now, the
\* first having ended
C6_Witness ==
  /\ Resolved
  /\ IsChronological(periods)
  /\ Len(periods) = 2
  /\ periods[1].end < now
  /\ nextPeriod = [status |-> "ongoing", period |-> periods[2]]

\* the three worked cases of C6 are run
C6_ExampleOngoing == Resolved /\ periods = ExamplePeriods /\ now = HMS(10, 15, 0)
C6_ExampleUpcoming == Resolved /\ periods = ExamplePeriods /\ now = HMS(9, 0, 0)
C6_ExampleNone == Resolved /\ periods = ExamplePeriods /\ now = HMS(15, 0, 0)

(***************************************************************************)
(* Solunar engine (lib/solunar.ts)                                         *)
(*                                                                         *)
(* The astronomy library is the provider: what it answers for the          *)
(* requested place and date is held in `provider`.  A Date-or-absent       *)
(* value is Date(t) or Null / Undefined.                                   *)
(***************************************************************************)
Date(t) == [status |-> "date", time |-> t]
Undefined == [status |-> "undefined"]
\* x instanceof Date
InstanceOfDate(x) == x.status = "date"

\* altitude samples: a number, or NaN; the running maximum starts at -Infinity
Num(v) == [k |-> "num", v |-> v]
NaN == [k |-> "NaN", v |-> 0]
NegInfinity == [k |-> "-Infinity", v |-> 0]

\* a > b on JavaScript numbers
GreaterThan(a, b) ==
  /\ a.k = "num"
  /\ \/ b.k = "-Infinity"
     \/ (b.k = "num" /\ a.v > b.v)

Abs(x) == IF x < 0 THEN -x ELSE x

\* SunCalc.getMoonPosition(checkTime, lat, lon).altitude for the curve alt
Altitude(alt, t) ==
  CASE alt.kind = "peak" -> Num(-Abs(t - alt.at))
    [] alt.kind = "flat" -> Num(0)
    [] alt.kind = "rising" -> Num(t)
    [] alt.kind = "falling" -> Num(-t)
    [] alt.kind = "nan" -> NaN
    \* level between alt.at and alt.other, sloping down on either side
    [] alt.kind = "plateau" ->
         Num(IF t < alt.at THEN t - alt.at
             ELSE IF t > alt.other THEN alt.other - t ELSE 0)
    \* two culminations of the same height, at alt.at and at alt.other
    [] alt.kind = "twoPeaks" -> Num(Max(-Abs(t - alt.at), -Abs(t - alt.other)))
    \* a hill around alt.other and one higher sample at alt.at
    [] alt.kind = "spike" ->
         Num(IF t = alt.at THEN 60 * 1000 ELSE -Abs(t - alt.other))
    \* the moon is not computed before alt.other, and culminates at alt.at
    [] alt.kind = "partial" -> IF t < alt.other THEN NaN ELSE Num(-Abs(t - alt.at))

\* phase fractions and illuminated fractions are counted in 1/PhaseUnit
PhaseUnit == 100 * 100

\* JavaScript a % b: the result has the sign of a
JsRem(a, b) == IF a >= 0 THEN a % b ELSE -((-a) % b)

\* slip: the phase is reduced with a single %, which keeps the sign
getMoonPhaseNameSingleRem(phase) ==
  LET normalizedPhase == JsRem(phase, PhaseUnit)
  IN IF normalizedPhase * 10000 < 625 * PhaseUnit THEN "Nouvelle lune"
     ELSE IF normalizedPhase * 10000 < 1875 * PhaseUnit THEN "Premier croissant"
     ELSE IF normalizedPhase * 10000 < 3125 * PhaseUnit THEN "Premier quartier"
     ELSE IF normalizedPhase * 10000 < 4375 * PhaseUnit THEN "Gibbeuse croissante"
     ELSE IF normalizedPhase * 10000 < 5625 * PhaseUnit THEN "Pleine lune"
     ELSE IF normalizedPhase * 10000 < 6875 * PhaseUnit THEN "Gibbeuse décroissante"
     ELSE IF normalizedPhase * 10000 < 8125 * PhaseUnit THEN "Dernier quartier"
     ELSE IF normalizedPhase * 10000 < 9375 * PhaseUnit THEN "Dernier croissant"
     ELSE "Nouvelle lune"

getMoonPhaseName(phase) ==
  LET normalizedPhase == JsRem(JsRem(phase, PhaseUnit) + PhaseUnit, PhaseUnit)
  IN IF normalizedPhase * 10000 < 625 * PhaseUnit THEN "Nouvelle lune"
     ELSE IF normalizedPhase * 10000 < 1875 * PhaseUnit THEN "Premier croissant"
     ELSE IF normalizedPhase * 10000 < 3125 * PhaseUnit THEN "Premier quartier"
     ELSE IF normalizedPhase * 10000 < 4375 * PhaseUnit THEN "Gibbeuse croissante"
     ELSE IF normalizedPhase * 10000 < 5625 * PhaseUnit THEN "Pleine lune"
     ELSE IF normalizedPhase * 10000 < 6875 * PhaseUnit THEN "Gibbeuse décroissante"
     ELSE IF normalizedPhase * 10000 < 8125 * PhaseUnit THEN "Dernier quartier"
     ELSE IF normalizedPhase * 10000 < 9375 * PhaseUnit THEN "Dernier croissant"
     ELSE "Nouvelle lune"

\* Math.round(fraction * 100)
RoundPercent(fraction) == (fraction * 100 * 2 + PhaseUnit) \div (2 * PhaseUnit)

\* slip: the whole duration is taken on each side of the centre
createTimeWindowWhole(center, durationMinutes) ==
  LET halfDuration == durationMinutes * 60 * 1000
  IN [start |-> center - halfDuration, end |-> center + halfDuration]

\* slip: the two ends are exchanged
createTimeWindowSwapped(center, durationMinutes) ==
  LET halfDuration == (durationMinutes * 60 * 1000) \div 2
  IN [start |-> center + halfDuration, end |-> center - halfDuration]

createTimeWindow(center, durationMinutes) ==
  LET halfDuration == (durationMinutes * 60 * 1000) \div 2
  IN [start |-> center - halfDuration, end |-> center + halfDuration]

\* startOfDay.setHours(0, 0, 0, 0)
StartOfDay(date) == date - (date % DayMs)

\* slip: a sample equal to the running maximum replaces it
ScanStepOrEqual(alt, checkTime, st) ==
  LET altitude == Altitude(alt, checkTime)
  IN IF GreaterThan(altitude, st.maxAltitude) \/ altitude = st.maxAltitude
       THEN [maxAltitude |-> altitude, transitTime |-> Date(checkTime)]
     ELSE st

\* one iteration of either scan loop: sample the altitude at checkTime and
\* keep it when it is strictly greater than the running maximum
ScanStep(alt, checkTime, st) ==
  LET altitude == Altitude(alt, checkTime)
  IN IF GreaterThan(altitude, st.maxAltitude)
       THEN [maxAltitude |-> altitude, transitTime |-> Date(checkTime)]
     ELSE st

\* the running maximum is -Infinity or a number, never NaN
IsScanState(st) == st.maxAltitude.k \in {"num", "-Infinity"}

\* the iterations lo..hi of a scan loop, in order, the k-th one sampling
\* base + k * step.  The range is split in halves to keep the nesting
\* shallow, and the state is inspected on entry so that the first half is
\* computed before the second half starts.
RECURSIVE ScanLoop(_, _, _, _, _, _)
ScanLoop(alt, base, step, lo, hi, st) ==
  IF lo > hi \/ ~IsScanState(st) THEN st
  ELSE IF lo = hi THEN ScanStep(alt, base + lo * step, st)
  ELSE LET mid == (lo + hi) \div 2
           firstHalf == ScanLoop(alt, base, step, lo, mid, st)
       IN ScanLoop(alt, base, step, mid + 1, hi, firstHalf)

\* slip: the running maximum starts at 0 instead of -Infinity
CoarseScanFromZero(alt, startOfDay) ==
  ScanLoop(alt, startOfDay, 10 * 60 * 1000, 0, ((24 * 60 - 1) \div 10),
           [maxAltitude |-> Num(0), transitTime |-> Null]).transitTime

\* for (minutes = 0; minutes < 24 * 60; minutes += 10)
CoarseScan(alt, startOfDay) ==
  ScanLoop(alt, startOfDay, 10 * 60 * 1000, 0, ((24 * 60 - 1) \div 10),
           [maxAltitude |-> NegInfinity, transitTime |-> Null]).transitTime

\* for (t = searchStart; t <= searchEnd; t += 60 * 1000)
RefineScan(alt, searchStart, searchEnd, transitTime) ==
  ScanLoop(alt, searchStart, 60 * 1000, 0, (searchEnd - searchStart) \div (60 * 1000),
           [maxAltitude |-> NegInfinity, transitTime |-> transitTime]).transitTime

findMoonTransit(date, alt) ==
  LET startOfDay == StartOfDay(date)
      transitTime == CoarseScan(alt, startOfDay)
  IN IF transitTime # Null
       THEN LET searchStart == transitTime.time - 10 * 60 * 1000
                searchEnd == transitTime.time + 10 * 60 * 1000
            IN RefineScan(alt, searchStart, searchEnd, transitTime)
     ELSE Null

MoonOf(p) ==
  [phase |-> p.moonIllumination.phase,
   phaseName |-> getMoonPhaseName(p.moonIllumination.phase),
   illumination |-> RoundPercent(p.moonIllumination.fraction),
   rise |-> IF InstanceOfDate(p.moonTimes.rise) THEN p.moonTimes.rise ELSE Null,
   set |-> IF InstanceOfDate(p.moonTimes.set) THEN p.moonTimes.set ELSE Null]

SunOf(p) == [rise |-> p.sunTimes.sunrise, set |-> p.sunTimes.sunset]

MajorOf(transit) ==
  IF transit # Null
    THEN LET transitWindow == createTimeWindow(transit.time, 120)
             nadir == transit.time + 12 * 60 * 60 * 1000
             nadirWindow == createTimeWindow(nadir, 120)
         IN <<[start |-> transitWindow.start, end |-> transitWindow.end, type |-> "transit"],
              [start |-> nadirWindow.start, end |-> nadirWindow.end, type |-> "nadir"]>>
  ELSE <<>>

\* variant: the two minor periods are put in order of start
MinorOfSorted(moon) ==
  LET riseWindow == createTimeWindow(moon.rise.time, 60)
      setWindow == createTimeWindow(moon.set.time, 60)
      risePeriod == [start |-> riseWindow.start, end |-> riseWindow.end, type |-> "moonrise"]
      setPeriod == [start |-> setWindow.start, end |-> setWindow.end, type |-> "moonset"]
  IN IF moon.rise # Null /\ moon.set # Null
       THEN IF setPeriod.start < risePeriod.start
              THEN <<setPeriod, risePeriod>> ELSE <<risePeriod, setPeriod>>
     ELSE IF moon.rise # Null THEN <<risePeriod>>
     ELSE IF moon.set # Null THEN <<setPeriod>>
     ELSE <<>>

\* slip: the moonset period is guarded by the moonrise instant
MinorOfRiseGuard(moon) ==
  LET afterRise ==
        IF moon.rise # Null
          THEN LET moonriseWindow == createTimeWindow(moon.rise.time, 60)
               IN <<[start |-> moonriseWindow.start, end |-> moonriseWindow.end,
                     type |-> "moonrise"]>>
        ELSE <<>>
  IN IF moon.rise # Null /\ moon.set # Null
       THEN LET moonsetWindow == createTimeWindow(moon.set.time, 60)
            IN Append(afterRise, [start |-> moonsetWindow.start, end |-> moonsetWindow.end,
                                  type |-> "moonset"])
     ELSE afterRise

MinorOf(moon) ==
  LET afterRise ==
        IF moon.rise # Null
          THEN LET moonriseWindow == createTimeWindow(moon.rise.time, 60)
               IN <<[start |-> moonriseWindow.start, end |-> moonriseWindow.end,
                     type |-> "moonrise"]>>
        ELSE <<>>
  IN IF moon.set # Null
       THEN LET moonsetWindow == createTimeWindow(moon.set.time, 60)
            IN Append(afterRise, [start |-> moonsetWindow.start, end |-> moonsetWindow.end,
                                  type |-> "moonset"])
     ELSE afterRise

\* getSolunarData(lat, lon, date), p being the provider's answers for them
getSolunarData(p) ==
  LET moon == MoonOf(p)
      sun == SunOf(p)
      transit == findMoonTransit(p.date, p.altitude)
  IN [moon |-> moon, sun |-> sun, major |-> MajorOf(transit), minor |-> MinorOf(moon)]

(***************************************************************************)
(* Engine specification: the provider's answers are drawn in the initial   *)
(* state and getSolunarData is applied to them.                            *)
(***************************************************************************)
AltitudeCurves ==
  {[kind |-> "peak", at |-> HMS(0, 0, 0)],
   [kind |-> "peak", at |-> HMS(8, 7, 0)],
   [kind |-> "peak", at |-> HMS(12, 0, 0)],
   [kind |-> "peak", at |-> HMS(23, 59, 0)],
   [kind |-> "flat", at |-> 0],
   [kind |-> "rising", at |-> 0],
   [kind |-> "falling", at |-> 0],
   [kind |-> "nan", at |-> 0]}

MoonEvents ==
  {Undefined, Date(HMS(0, 10, 0)), Date(HMS(6, 0, 0)), Date(HMS(6, 45, 0)),
   Date(HMS(18, 0, 0))}

Illuminations ==
  {[phase |-> 0, fraction |-> 0], [phase |-> 2500, fraction |-> 4950]}

RequestDates == {HMS(0, 0, 0), HMS(10, 15, 0)}

\* the conditions and the instants at which the engine's result is scored
EngineWeather ==
  [pressureTrend |-> "stable", current |-> [windSpeed |-> 15, cloudCover |-> 80]]

EngineTimes == {HMS(5, 0, 0), HMS(5, 45, 0), HMS(12, 0, 0), HMS(17, 45, 0)}

Providers ==
  {[date |-> d, altitude |-> a, moonIllumination |-> il,
    moonTimes |-> [rise |-> r, set |-> st],
    sunTimes |-> [sunrise |-> HMS(6, 0, 0), sunset |-> HMS(18, 0, 0)]] :
     d \in RequestDates, a \in AltitudeCurves, il \in Illuminations,
     r \in MoonEvents, st \in MoonEvents}

Init ==
  /\ provider \in Providers
  /\ solunar = None
  /\ weather = EngineWeather
  /\ currentTime \in EngineTimes
  /\ activity = None
  /\ periods = <<>>
  /\ now = 0
  /\ nextPeriod = None
  /\ scoring = None
  /\ IdleCountdown
  /\ IdleHandler
  /\ IdleLibrary
  /\ IdlePresentation
  /\ IdleSearch

GetSolunarData ==
  /\ solunar = None
  /\ solunar' = getSolunarData(provider)
  /\ UNCHANGED <<provider, weather, currentTime, activity, periods, now, nextPeriod>>
  /\ UNCHANGED <<scoring, countdownVars, handlerVars>>
  /\ UNCHANGED <<libraryVars, presentationVars, searchVars>>

Next == GetSolunarData \/ CalculatePikeActivity

Spec == Init /\ [][Next]_vars

(***************************************************************************)
(* Properties of getSolunarData                                            *)
(***************************************************************************)
Computed == solunar # None

RiseGiven == provider.moonTimes.rise.status = "date"
SetGiven == provider.moonTimes.set.status = "date"

StartsAscend(ps) == \A i \in 1..(Len(ps) - 1) : ps[i].start <= ps[i + 1].start

\* C7: in every result of getSolunarData the major sequence and the minor
\* sequence are each ordered chronologically by start time.
C7_PeriodsChronological ==
  Computed => (StartsAscend(solunar.major) /\ StartsAscend(solunar.minor))

TypesOf(ps) == [i \in 1..Len(ps) |-> ps[i].type]

\* C8: major is the transit period followed by the nadir period, minor is
\* the moonrise period (when present) followed by the moonset period (when
\* present), whatever the relative times of moonrise and moonset.
C8_EmissionOrder ==
  Computed =>
    /\ TypesOf(solunar.major) \in {<<>>, <<"transit", "nadir">>}
    /\ TypesOf(solunar.minor) =
         (IF RiseGiven THEN <<"moonrise">> ELSE <<>>) \o
         (IF SetGiven THEN <<"moonset">> ELSE <<>>)

\* the moon sets before it rises, and the moonrise period still comes first
C8_Witness ==
  /\ Computed
  /\ RiseGiven
  /\ SetGiven
  /\ provider.moonTimes.set.time < provider.moonTimes.rise.time
  /\ TypesOf(solunar.minor) = <<"moonrise", "moonset">>
  /\ TypesOf(solunar.major) = <<"transit", "nadir">>

TransitFound == findMoonTransit(provider.date, provider.altitude)

\* C9: with the transit at T there are exactly two major periods,
\* [T - 60 min, T + 60 min] and [T + 12 h - 60 min, T + 12 h + 60 min], each
\* 120 minutes wide, the nadir period starting 10 hours after the transit
\* period ends.
C9_MajorWindows ==
  (Computed /\ TransitFound # Null) =>
    /\ solunar.major =
         <<[start |-> TransitFound.time - 3600000,
            end |-> TransitFound.time + 3600000, type |-> "transit"],
           [start |-> TransitFound.time + 43200000 - 3600000,
            end |-> TransitFound.time + 43200000 + 3600000, type |-> "nadir"]>>
    /\ \A i \in 1..2 : solunar.major[i].end - solunar.major[i].start = 7200000
    /\ solunar.major[2].start - solunar.major[1].end = 36000000
    /\ solunar.major[1].end < solunar.major[2].start

\* the transit is found at 08:07, off the 10-minute grid
C9_Witness ==
  /\ Computed
  /\ TransitFound = Date(HMS(8, 7, 0))
  /\ Len(solunar.major) = 2
  /\ solunar.major[1].start = HMS(7, 7, 0)

MinorOfType(ty) == {solunar.minor[i] : i \in {j \in 1..Len(solunar.minor) : solunar.minor[j].type = ty}}

\* C10: minor holds a moonrise period iff a moonrise instant was supplied
\* and a moonset period iff a moonset instant was supplied, each being
\* [c - 30 min, c + 30 min] around its event c; with neither event, minor
\* is empty and moon.rise and moon.set are null.
C10_MinorPresence ==
  Computed =>
    /\ MinorOfType("moonrise") =
         (IF RiseGiven
            THEN {[start |-> provider.moonTimes.rise.time - 1800000,
                   end |-> provider.moonTimes.rise.time + 1800000, type |-> "moonrise"]}
          ELSE {})
    /\ MinorOfType("moonset") =
         (IF SetGiven
            THEN {[start |-> provider.moonTimes.set.time - 1800000,
                   end |-> provider.moonTimes.set.time + 1800000, type |-> "moonset"]}
          ELSE {})
    /\ Len(solunar.minor) = (IF RiseGiven THEN 1 ELSE 0) + (IF SetGiven THEN 1 ELSE 0)
    /\ RiseGiven <=> solunar.moon.rise # Null
    /\ SetGiven <=> solunar.moon.set # Null
    /\ (~RiseGiven /\ ~SetGiven) =>
         (solunar.minor = <<>> /\ solunar.moon.rise = Null /\ solunar.moon.set = Null)

\* a circumpolar moon: neither event is supplied
C10_Witness ==
  Computed /\ ~RiseGiven /\ ~SetGiven /\ solunar.minor = <<>>

\* only the moonset is supplied
C10_OnlySet ==
  Computed /\ ~RiseGiven /\ SetGiven /\ Len(solunar.minor) = 1

AllPeriods ==
  {solunar.major[i] : i \in 1..Len(solunar.major)} \cup
  {solunar.minor[i] : i \in 1..Len(solunar.minor)}

\* C11: every period of a result satisfies start <= end, and the result
\* holds at most 2 major and at most 2 minor periods.
C11_PeriodsWellFormed ==
  Computed =>
    /\ \A p \in AllPeriods : p.start <= p.end
    /\ Len(solunar.major) <= 2
    /\ Len(solunar.minor) <= 2

\* a full result: two major and two minor periods
C11_Witness ==
  Computed /\ Len(solunar.major) = 2 /\ Len(solunar.minor) = 2

\* the instants of the 10-minute scan of the reference day
CoarseInstants ==
  {StartOfDay(provider.date) + k * 600000 : k \in 0..143}

\* no sample of the scan is a number, so none compares greater than -Infinity
NoAltitudeSample ==
  \A t \in CoarseInstants : Altitude(provider.altitude, t).k # "num"

\* C12: when the transit search returns null (no sample greater than
\* -Infinity) major is empty while moon, sun and minor are returned as
\* usual; and major is empty only in that case.
C12_NoTransitNoMajor ==
  Computed =>
    /\ NoAltitudeSample <=> (solunar.major = <<>>)
    /\ NoAltitudeSample =>
         /\ TransitFound = Null
         /\ solunar.sun = [rise |-> provider.sunTimes.sunrise,
                           set |-> provider.sunTimes.sunset]
         /\ solunar.moon.phase = provider.moonIllumination.phase
         /\ Len(solunar.minor) = (IF RiseGiven THEN 1 ELSE 0) + (IF SetGiven THEN 1 ELSE 0)

\* every sample is NaN, and both minor periods are still there
C12_Witness ==
  /\ Computed
  /\ NoAltitudeSample
  /\ solunar.major = <<>>
  /\ Len(solunar.minor) = 2

(***************************************************************************)
(* Transit search on its own: findMoonTransit is called with a date and    *)
(* an altitude curve drawn in the initial state.                           *)
(***************************************************************************)
Curve(kind, at, other) == [kind |-> kind, at |-> at, other |-> other]

\* culminations at chosen minutes of the day, on and off the 10-minute
\* grid, next to its two ends, and five minutes outside the day
PeakInstants ==
  {HMS(0, 0, 0), HMS(0, 1, 0), HMS(0, 5, 0), HMS(0, 9, 0), HMS(0, 10, 0),
   HMS(0, 15, 0), HMS(8, 7, 0), HMS(12, 0, 0), HMS(23, 49, 0), HMS(23, 50, 0),
   HMS(23, 55, 0), HMS(23, 59, 0), -HMS(0, 5, 0), HMS(24, 5, 0)}

TransitCurves ==
  {Curve("peak", m, 0) : m \in PeakInstants} \cup
  {Curve("plateau", HMS(8, 3, 0), HMS(8, 6, 0)),
   Curve("plateau", HMS(8, 0, 0), HMS(8, 30, 0)),
   Curve("plateau", HMS(8, 12, 0), HMS(8, 18, 0)),
   Curve("plateau", HMS(7, 55, 0), HMS(8, 0, 0)),
   Curve("twoPeaks", HMS(3, 0, 0), HMS(15, 0, 0)),
   Curve("twoPeaks", HMS(3, 7, 0), HMS(15, 3, 0)),
   Curve("twoPeaks", HMS(3, 5, 0), HMS(3, 15, 0)),
   Curve("spike", HMS(8, 7, 0), HMS(15, 0, 0)),
   Curve("spike", HMS(8, 0, 0), HMS(15, 0, 0)),
   Curve("spike", HMS(14, 53, 0), HMS(15, 0, 0)),
   Curve("partial", HMS(3, 0, 0), HMS(6, 5, 0)),
   Curve("partial", HMS(12, 0, 0), HMS(6, 5, 0)),
   Curve("flat", 0, 0), Curve("rising", 0, 0), Curve("falling", 0, 0),
   Curve("nan", 0, 0)}

TransitDates == {HMS(0, 0, 0), HMS(10, 15, 0), HMS(23, 59, 59)}

TransitCalls ==
  {[fn |-> "findMoonTransit", date |-> d, altitude |-> a] :
     d \in TransitDates, a \in TransitCurves}

InitTransit ==
  /\ call \in TransitCalls
  /\ result = None
  /\ now = 0
  /\ IdleScorer
  /\ IdlePeriods
  /\ IdleCountdown
  /\ IdleHandler
  /\ IdlePresentation
  /\ IdleSearch

FindMoonTransit ==
  /\ call.fn = "findMoonTransit"
  /\ result = None
  /\ result' = findMoonTransit(call.date, call.altitude)
  /\ UNCHANGED <<call, now, periods, nextPeriod, countdownVars, handlerVars>>
  /\ UNCHANGED <<weather, solunar, currentTime, activity, scoring, provider>>
  /\ UNCHANGED <<presentationVars, searchVars>>

NextTransit == FindMoonTransit

SpecTransit == InitTransit /\ [][NextTransit]_vars

(***************************************************************************)
(* Properties of findMoonTransit                                           *)
(***************************************************************************)
TransitDone == result # None

DayStart == StartOfDay(call.date)
MinuteOfDay(m) == DayStart + m * 60000
AltitudeAt(t) == Altitude(call.altitude, t)

\* the highest number among the samples base + k * step, k in lo..hi (NaN
\* when none of them is a number), found by comparing halves
RECURSIVE Highest(_, _, _, _)
Highest(base, step, lo, hi) ==
  IF lo = hi THEN AltitudeAt(base + lo * step)
  ELSE LET mid == (lo + hi) \div 2
           a == Highest(base, step, lo, mid)
           b == Highest(base, step, mid + 1, hi)
       IN IF GreaterThan(b, a) THEN b ELSE IF a.k = "num" THEN a ELSE b

\* the indices in 0..n whose sample equals the value top
Attaining(base, step, n, top) ==
  {k \in 0..n : AltitudeAt(base + k * step) = top}

Earliest2(S) == CHOOSE k \in S : \A j \in S : k <= j

DayTop == Highest(DayStart, 60000, 0, 1439)
DayMaxima == Attaining(DayStart, 60000, 1439, DayTop)

\* the altitude is a number all day and one minute is strictly above all others
SingleMaximum ==
  /\ \A m \in 0..1439 : AltitudeAt(MinuteOfDay(m)).k = "num"
  /\ Cardinality(DayMaxima) = 1

\* C21: for every altitude function over the reference day with a single
\* maximum at minute M (strictly greater than at every other minute), the
\* transit search returns minute M.
C21_SingleMaximumFound ==
  (TransitDone /\ SingleMaximum) =>
    result = Date(MinuteOfDay(Earliest2(DayMaxima)))

\* what does hold: a curve rising to its culmination and falling after
\* it, the culmination being a minute of the reference day, gives that minute
C21_CulminationInsideDay ==
  (TransitDone /\ call.altitude.kind = "peak"
     /\ call.altitude.at >= DayStart /\ call.altitude.at < DayStart + DayMs) =>
    result = Date(call.altitude.at)

\* the culmination at 08:07 is searched for and found
C21_OffGrid ==
  /\ TransitDone
  /\ call.altitude = Curve("peak", HMS(8, 7, 0), 0)
  /\ result = Date(HMS(8, 7, 0))

\* a single higher sample at 08:07 that the 10-minute grid does not see: the
\* hill at 15:00 is returned
C21_UnseenMaximum ==
  /\ TransitDone
  /\ SingleMaximum
  /\ call.altitude = Curve("spike", HMS(8, 7, 0), HMS(15, 0, 0))
  /\ result = Date(HMS(15, 0, 0))

CoarseTop == Highest(DayStart, 600000, 0, 143)
CoarseTies == Attaining(DayStart, 600000, 143, CoarseTop)
CoarseFirst == DayStart + Earliest2(CoarseTies) * 600000
FineTop == Highest(CoarseFirst - 600000, 60000, 0, 20)
FineTies == Attaining(CoarseFirst - 600000, 60000, 20, FineTop)
FineFirst == CoarseFirst - 600000 + Earliest2(FineTies) * 60000

\* C22: among samples that tie for the maximum the search keeps the first
\* in scan order: the coarse pass selects the earliest 10-minute sample
\* attaining the coarse maximum, and the refinement returns the earliest
\* 1-minute sample attaining the maximum of the window from 10 minutes
\* before to 10 minutes after that coarse sample.
C22_FirstOfTies ==
  TransitDone =>
    IF CoarseTop.k = "num" THEN result = Date(FineFirst) ELSE result = Null

\* several coarse samples tie, several samples of the window tie, and the
\* first of them is what came back
C22_Witness ==
  /\ TransitDone
  /\ CoarseTop.k = "num"
  /\ Cardinality(CoarseTies) > 1
  /\ Cardinality(FineTies) > 1
  /\ result = Date(FineFirst)
  /\ FineFirst # CoarseFirst

\* C27: a non-null instant returned by the transit search lies inside the
\* reference calendar day: startOfDay <= transit < startOfDay + 24 h.
C27_TransitInsideDay ==
  (TransitDone /\ result # Null) =>
    (DayStart <= result.time /\ result.time < DayStart + DayMs)

\* the searches that do stay inside the day
C27_InsideDay ==
  /\ TransitDone
  /\ result # Null
  /\ DayStart <= result.time
  /\ result.time < DayStart + DayMs

(***************************************************************************)
(* Moon phase name on its own: getMoonPhaseName is called with a phase      *)
(* drawn in the initial state, two cycles either side of zero.             *)
(***************************************************************************)
PhaseCalls ==
  {[fn |-> "getMoonPhaseName", phase |-> p] : p \in (-2 * PhaseUnit)..(2 * PhaseUnit)}

InitPhase ==
  /\ call \in PhaseCalls
  /\ result = None
  /\ now = 0
  /\ IdleScorer
  /\ IdlePeriods
  /\ IdleCountdown
  /\ IdleHandler
  /\ IdlePresentation
  /\ IdleSearch

GetMoonPhaseName ==
  /\ call.fn = "getMoonPhaseName"
  /\ result = None
  /\ result' = Returned(getMoonPhaseName(call.phase))
  /\ UNCHANGED <<call, now, periods, nextPeriod, countdownVars, handlerVars>>
  /\ UNCHANGED <<weather, solunar, currentTime, activity, scoring, provider>>
  /\ UNCHANGED <<presentationVars, searchVars>>

NextPhase == GetMoonPhaseName

SpecPhase == InitPhase /\ [][NextPhase]_vars

(***************************************************************************)
(* Properties of getMoonPhaseName                                          *)
(***************************************************************************)
PhaseNamed == result # None
phaseName == result.value

\* the eight boundaries, in 1/10000 of a cycle
PhaseBoundaries == {625, 1875, 3125, 4375, 5625, 6875, 8125, 9375}

\* New, Waxing Crescent, First Quarter, Waxing Gibbous, Full, Waning
\* Gibbous, Last Quarter, Waning Crescent, New
PhaseOrder ==
  <<"Nouvelle lune", "Premier croissant", "Premier quartier", "Gibbeuse croissante",
    "Pleine lune", "Gibbeuse décroissante", "Dernier quartier", "Dernier croissant",
    "Nouvelle lune">>

\* the phase wrapped into [0, 1): the mathematical remainder
WrappedPhase(p) == p % PhaseUnit

\* a phase belongs to the category after the last boundary it has reached
CategoryOf(p) ==
  PhaseOrder[1 + Cardinality({b \in PhaseBoundaries : b * PhaseUnit <= WrappedPhase(p) * 10000})]

PhaseExamples ==
  (call.phase = 0 => phaseName = "Nouvelle lune")
    /\ (call.phase * 100 = 25 * PhaseUnit => phaseName = "Premier quartier")
    /\ (call.phase * 100 = 50 * PhaseUnit => phaseName = "Pleine lune")
    /\ (call.phase * 100 = 75 * PhaseUnit => phaseName = "Dernier quartier")
    /\ (call.phase * 10000 = 9375 * PhaseUnit => phaseName = "Nouvelle lune")

\* C23: getMoonPhaseName wraps the phase into [0,1), so that p and p + k
\* classify identically for every integer k, negative phases included, and
\* maps it by the boundaries 0.0625 ... 0.9375, each boundary belonging to
\* the later category, in the order New, Waxing Crescent, First Quarter,
\* Waxing Gibbous, Full, Waning Gibbous, Last Quarter, Waning Crescent, New;
\* 0.0, 0.25, 0.5, 0.75 and 0.9375 give New, First Quarter, Full, Last
\* Quarter and New.
C23_PhaseCategories ==
  PhaseNamed =>
    /\ phaseName = CategoryOf(call.phase)
    /\ \A k \in -3..3 : getMoonPhaseName(call.phase + k * PhaseUnit) = phaseName
    /\ PhaseExamples

\* a negative phase that wraps onto the boundary 0.9375
C23_Witness ==
  /\ PhaseNamed
  /\ call.phase * 10000 = (9375 - 10000) * PhaseUnit
  /\ phaseName = "Nouvelle lune"

\* the five worked values are classified
C23_ExampleNew == PhaseNamed /\ call.phase = 0
C23_ExampleFirstQuarter == PhaseNamed /\ call.phase * 100 = 25 * PhaseUnit
C23_ExampleFull == PhaseNamed /\ call.phase * 100 = 50 * PhaseUnit
C23_ExampleLastQuarter == PhaseNamed /\ call.phase * 100 = 75 * PhaseUnit
C23_ExampleWrap == PhaseNamed /\ call.phase * 10000 = 9375 * PhaseUnit
\* just below a boundary the earlier category still applies
C23_BelowBoundary ==
  PhaseNamed /\ call.phase * 10000 = 1875 * PhaseUnit - 10000 /\ phaseName = "Premier croissant"

(***************************************************************************)
(* Pressure trend (lib/weather.ts)                                         *)
(*                                                                         *)
(* Pressures are counted in 1/PressureUnit hPa.  An hourly sample is a     *)
(* number or the null the weather service sends for a missing value; an    *)
(* index outside the array reads undefined.                                *)
(***************************************************************************)
PressureUnit == 2 * 5

JsNull == [k |-> "null", v |-> 0]
JsUndefined == [k |-> "undefined", v |-> 0]

\* !x on a number, null or undefined
Not(x) == x.k # "num" \/ x.v = 0

\* array[index] on a JavaScript array held as a sequence
ElementAt(array, index) ==
  IF index >= 0 /\ index < Len(array) THEN array[index + 1] ELSE JsUndefined

\* slip: a difference equal to the threshold already counts as a change
calculatePressureTrendInclusive(currentPressure, pressureHistory, currentTimeIndex) ==
  LET threeHoursAgoIndex == currentTimeIndex - 3
      pastPressure == ElementAt(pressureHistory, threeHoursAgoIndex)
      difference == currentPressure - pastPressure.v
      threshold == 1 * PressureUnit
  IN IF threeHoursAgoIndex < 0 \/ Not(pastPressure) THEN "stable"
     ELSE IF difference >= threshold THEN "rising"
     ELSE IF difference <= -threshold THEN "falling"
     ELSE "stable"

calculatePressureTrend(currentPressure, pressureHistory, currentTimeIndex) ==
  LET threeHoursAgoIndex == currentTimeIndex - 3
      pastPressure == ElementAt(pressureHistory, threeHoursAgoIndex)
      difference == currentPressure - pastPressure.v
      threshold == 1 * PressureUnit
  IN IF threeHoursAgoIndex < 0 \/ Not(pastPressure) THEN "stable"
     ELSE IF difference > threshold THEN "rising"
     ELSE IF difference < -threshold THEN "falling"
     ELSE "stable"

\* longest hourly pressure array
MaxHistory == 5

\* pressures around 1013 hPa whose differences include 0, +1.0, -1.0,
\* +1.1 and -1.1 hPa
CurrentPressures == {10130, 10131, 10120}
HourlySamples == {Num(10120), Num(10130), Num(10141), JsNull}

TrendCall(c, h, i) ==
  [fn |-> "calculatePressureTrend", currentPressure |-> c,
   pressureHistory |-> h, currentTimeIndex |-> i]

\* findCurrentHourIndex gives an index of the array, or 0
InitTrend ==
  /\ \E h \in SeqsUpTo(HourlySamples, MaxHistory) :
       \E c \in CurrentPressures, i \in 0..Max(Len(h) - 1, 0) :
         call = TrendCall(c, h, i)
  /\ result = None
  /\ now = 0
  /\ IdleScorer
  /\ IdlePeriods
  /\ IdleCountdown
  /\ IdleHandler
  /\ IdlePresentation
  /\ IdleSearch

CalculatePressureTrend ==
  /\ call.fn = "calculatePressureTrend"
  /\ result = None
  /\ result' = Returned(calculatePressureTrend(call.currentPressure,
                                               call.pressureHistory,
                                               call.currentTimeIndex))
  /\ UNCHANGED <<call, now, periods, nextPeriod, countdownVars, handlerVars>>
  /\ UNCHANGED <<weather, solunar, currentTime, activity, scoring, provider>>
  /\ UNCHANGED <<presentationVars, searchVars>>

NextTrend == CalculatePressureTrend

SpecTrend == InitTrend /\ [][NextTrend]_vars

(***************************************************************************)
(* Properties of calculatePressureTrend                                    *)
(***************************************************************************)
TrendDone == result # None
pressureTrend == result.value

\* the hourly sample 3 positions before the current index, when there is one
HasPast ==
  /\ call.currentTimeIndex - 3 >= 0
  /\ call.currentTimeIndex - 3 < Len(call.pressureHistory)
  /\ call.pressureHistory[call.currentTimeIndex - 3 + 1].k = "num"
PastSample == call.pressureHistory[call.currentTimeIndex - 3 + 1].v
TenthsOfChange == call.currentPressure - PastSample

\* C24: calculatePressureTrend compares the current pressure with the hourly
\* sample exactly 3 positions before the current index: rising iff the
\* difference is > +1 hPa, falling iff it is < -1 hPa, stable otherwise,
\* a difference of exactly +1 or -1 included; with fewer than 3 earlier
\* samples, or with that sample missing, it returns stable and does not fail.
C24_PressureTrend ==
  TrendDone =>
    /\ result.status = "returned"
    /\ pressureTrend \in {"rising", "falling", "stable"}
    /\ (pressureTrend = "rising") <=> (HasPast /\ TenthsOfChange > 10)
    /\ (pressureTrend = "falling") <=> (HasPast /\ TenthsOfChange < -10)
    /\ (HasPast /\ TenthsOfChange \in {10, -10}) => pressureTrend = "stable"
    /\ ~HasPast => pressureTrend = "stable"

\* the pressure rose by exactly 1 hPa in three hours: stable
C24_Witness ==
  /\ TrendDone
  /\ HasPast
  /\ TenthsOfChange = 10
  /\ pressureTrend = "stable"

\* the other cases of C24 are run
C24_Rising == TrendDone /\ HasPast /\ TenthsOfChange = 11 /\ pressureTrend = "rising"
C24_Falling == TrendDone /\ HasPast /\ TenthsOfChange = -11 /\ pressureTrend = "falling"
C24_MinusOne == TrendDone /\ HasPast /\ TenthsOfChange = -10 /\ pressureTrend = "stable"
C24_ShortHistory ==
  TrendDone /\ call.currentTimeIndex = 2 /\ Len(call.pressureHistory) = 3
    /\ pressureTrend = "stable"
C24_MissingSample ==
  /\ TrendDone
  /\ call.currentTimeIndex = 4
  /\ call.pressureHistory[2] = JsNull
  /\ pressureTrend = "stable"
\* the sample 2 positions before differs by more than 1 hPa, the one 3
\* positions before does not
C24_ThirdNotSecond ==
  /\ TrendDone
  /\ call.currentTimeIndex = 3
  /\ call.currentPressure = 10130
  /\ call.pressureHistory[1] = Num(10130)
  /\ call.pressureHistory[2] = Num(10141)
  /\ pressureTrend = "stable"

(***************************************************************************)
(* Presentation helpers (lib/helpers.ts): wind arrow                       *)
(*                                                                         *)
(* Directions are counted in 1/DegreeUnit degree, so that 22.5 is exact.   *)
(***************************************************************************)
DegreeUnit == 1 * 2

\* Math.round(a / b) for a >= 0 and b > 0: halves go up
MathRound(a, b) == (2 * a + b) \div (2 * b)

arrows == <<"↓", "↙", "←", "↖", "↑", "↗", "→", "↘">>

getWindArrow(degrees) ==
  LET normalized == JsRem(JsRem(degrees, 360 * DegreeUnit) + 360 * DegreeUnit,
                          360 * DegreeUnit)
      index == MathRound(normalized + 45, 45 * DegreeUnit) % 8
  IN arrows[index + 1]

\* every half degree from -360 to 720
ArrowCalls ==
  {[fn |-> "getWindArrow", degrees |-> g] :
     g \in (-360 * DegreeUnit)..(720 * DegreeUnit)}

InitArrow ==
  /\ call \in ArrowCalls
  /\ result = None
  /\ now = 0
  /\ IdleScorer
  /\ IdlePeriods
  /\ IdleCountdown
  /\ IdleHandler
  /\ IdlePresentation
  /\ IdleSearch

GetWindArrow ==
  /\ call.fn = "getWindArrow"
  /\ result = None
  /\ result' = Returned(getWindArrow(call.degrees))
  /\ UNCHANGED <<call, now, periods, nextPeriod, countdownVars, handlerVars>>
  /\ UNCHANGED <<weather, solunar, currentTime, activity, scoring, provider>>
  /\ UNCHANGED <<presentationVars, searchVars>>

NextArrow == GetWindArrow

SpecArrow == InitArrow /\ [][NextArrow]_vars

(***************************************************************************)
(* Properties of getWindArrow                                              *)
(***************************************************************************)
ArrowDone == result # None
arrow == result.value

\* the direction modulo 360, in half degrees
Bearing == call.degrees % 720

\* the sector centred on compass point k covers 45 k - 22.5 up to 45 k + 22.5
Sector == ((Bearing + 45) \div 90) % 8

\* C25: for every direction in degrees (normalised modulo 360, negative
\* values included) getWindArrow returns the arrow of the 45-degree sector
\* centred on the compass point the wind comes from: the down arrow for the
\* north sector 337.5 to 22.5 degrees (so for 0 and 360), the left arrow for
\* 90, the up arrow for 180 and the right arrow for 270.
C25_ArrowOfCentredSector ==
  ArrowDone =>
    /\ arrow = arrows[Sector + 1]
    /\ (Bearing >= 675 \/ Bearing < 45) => arrow = "↓"
    /\ Bearing = 180 => arrow = "←"
    /\ Bearing = 360 => arrow = "↑"
    /\ Bearing = 540 => arrow = "→"

\* what the code does: the sector of compass point k is 45 (k - 1) up to
\* 45 k, so that the down arrow stands for 315 up to 360 degrees
C25_ArrowOfSectorBelow ==
  ArrowDone => arrow = arrows[((Bearing \div 90 + 1) % 8) + 1]

\* a wind from the north-north-west still gets the down arrow
C25_NorthNorthWest == ArrowDone /\ call.degrees = 340 * DegreeUnit /\ arrow = "↓"

(***************************************************************************)
(* Presentation helpers (lib/helpers.ts): countdown                        *)
(***************************************************************************)
DigitChar(dgt) ==
  CASE dgt = 0 -> "0" [] dgt = 1 -> "1" [] dgt = 2 -> "2" [] dgt = 3 -> "3"
    [] dgt = 4 -> "4" [] dgt = 5 -> "5" [] dgt = 6 -> "6" [] dgt = 7 -> "7"
    [] dgt = 8 -> "8" [] dgt = 9 -> "9"

\* the decimal rendering of a non-negative integer (template literal, toString)
RECURSIVE NumberToString(_)
NumberToString(n) ==
  IF n < 10 THEN DigitChar(n)
  ELSE NumberToString(n \div 10) \o DigitChar(n % 10)

\* str.padStart(2, '0')
PadStart2(str) == IF Len(str) < 2 THEN "0" \o str ELSE str

\* slip: a target equal to now already counts as past
getCountdownPastAtZero(t, tgt) ==
  LET diffMs == tgt - t
      diffMinutes == Floor(diffMs, 1000 * 60)
      hours == Floor(diffMinutes, 60)
      minutes == diffMinutes % 60
  IN IF diffMs <= 0 THEN "passé"
     ELSE IF hours = 0 THEN "dans " \o NumberToString(minutes) \o "min"
     ELSE IF minutes = 0 THEN "dans " \o NumberToString(hours) \o "h"
     ELSE "dans " \o NumberToString(hours) \o "h" \o PadStart2(NumberToString(minutes))

getCountdown(t, tgt) ==
  LET diffMs == tgt - t
      diffMinutes == Floor(diffMs, 1000 * 60)
      hours == Floor(diffMinutes, 60)
      minutes == diffMinutes % 60
  IN IF diffMs < 0 THEN "passé"
     ELSE IF hours = 0 THEN "dans " \o NumberToString(minutes) \o "min"
     ELSE IF minutes = 0 THEN "dans " \o NumberToString(hours) \o "h"
     ELSE "dans " \o NumberToString(hours) \o "h" \o PadStart2(NumberToString(minutes))

(***************************************************************************)
(* Countdown specification: any pair of instants                           *)
(***************************************************************************)
CountdownNows == {HMS(10, 0, 0), HMS(10, 0, 30), HMS(9, 59, 59), HMS(0, 0, 0), HMS(10, 59, 0)}

CountdownTargets ==
  {HMS(9, 0, 0), HMS(9, 59, 59), HMS(10, 0, 0), HMS(10, 0, 29), HMS(10, 0, 59),
   HMS(10, 1, 0), HMS(10, 9, 0), HMS(10, 10, 0), HMS(10, 59, 59), HMS(11, 0, 0),
   HMS(11, 0, 59), HMS(11, 5, 0), HMS(12, 15, 0), HMS(20, 0, 0), HMS(34, 7, 0)}

InitCountdown ==
  /\ now \in CountdownNows
  /\ target \in CountdownTargets
  /\ countdown = None
  /\ IdleScorer
  /\ IdlePeriods
  /\ IdleHandler
  /\ IdleLibrary
  /\ IdlePresentation
  /\ IdleSearch

GetCountdown ==
  /\ countdown = None
  /\ countdown' = [status |-> "ok", text |-> getCountdown(now, target)]
  /\ UNCHANGED <<now, target, periods, nextPeriod, handlerVars>>
  /\ UNCHANGED <<weather, solunar, currentTime, activity, scoring, provider>>
  /\ UNCHANGED <<libraryVars, presentationVars, searchVars>>

NextCountdown == GetCountdown

SpecCountdown == InitCountdown /\ [][NextCountdown]_vars

(***************************************************************************)
(* Properties of getCountdown                                              *)
(***************************************************************************)
Counted == countdown # None

\* whole minutes from now to target, for a target that is not before now
WholeMinutes == CHOOSE m \in 0..(48 * 60) : m * 60000 <= target - now /\ target - now < (m + 1) * 60000
CountHours == CHOOSE h \in 0..48 : h * 60 <= WholeMinutes /\ WholeMinutes < (h + 1) * 60
CountRest == WholeMinutes - 60 * CountHours

\* C13: getCountdown returns the past marker iff target < now; otherwise,
\* with m the whole minutes to the target, h = m div 60 and r = m mod 60, it
\* returns "dans <r>min" when h = 0, "dans <h>h" when r = 0, and
\* "dans <h>h<rr>" with r on two digits otherwise; 10:00 -> 12:15 gives
\* "dans 2h15", target = now gives "dans 0min", 10:00 -> 09:00 the marker.
C13_CountdownFormat ==
  Counted =>
    /\ (countdown.text = "passé") <=> (target < now)
    /\ (target >= now /\ CountHours = 0) =>
         countdown.text = "dans " \o ToString(CountRest) \o "min"
    /\ (target >= now /\ CountHours > 0 /\ CountRest = 0) =>
         countdown.text = "dans " \o ToString(CountHours) \o "h"
    /\ (target >= now /\ CountHours > 0 /\ CountRest > 0) =>
         countdown.text = "dans " \o ToString(CountHours) \o "h" \o
                          (IF CountRest < 10 THEN "0" ELSE "") \o ToString(CountRest)
    /\ (now = HMS(10, 0, 0) /\ target = HMS(12, 15, 0)) => countdown.text = "dans 2h15"
    /\ (now = HMS(10, 0, 0) /\ target = HMS(10, 0, 0)) => countdown.text = "dans 0min"
    /\ (now = HMS(10, 0, 0) /\ target = HMS(9, 0, 0)) => countdown.text = "passé"

\* hours and a one-digit minute count: the minutes are padded
C13_Witness ==
  Counted /\ now = HMS(10, 0, 0) /\ target = HMS(11, 5, 0) /\ countdown.text = "dans 1h05"

C13_ExampleZero == Counted /\ now = target /\ countdown.text = "dans 0min"
C13_ExamplePast == Counted /\ now = HMS(10, 0, 0) /\ target = HMS(9, 0, 0)
C13_ExampleHours == Counted /\ countdown.text = "dans 2h15"

(***************************************************************************)
(* The wallpaper route (app/api/wallpaper/route.tsx): GET                  *)
(*                                                                         *)
(* A query parameter is given with a value or not given at all.  The       *)
(* handler suspends twice, on the fonts and on the weather data; `fetched` *)
(* logs what it has asked for or computed so far.                          *)
(***************************************************************************)
Given(v) == [present |-> TRUE, value |-> v]
NotGiven == [present |-> FALSE, value |-> ""]

\* searchParams.get(name) || fallback : null and '' both give the fallback
GetOr(param, fallback) ==
  IF param.present /\ param.value # "" THEN param.value ELSE fallback

\* parseFloat on the query strings of the model, in hundredths
parseFloat(str) ==
  CASE str = "0" -> Num(0)
    [] str = "0.0" -> Num(0)
    [] str = "48.85" -> Num(4885)
    [] str = "2.35" -> Num(235)
    [] OTHER -> NaN

\* a === 0 on numbers
IsZero(a) == a.k = "num" /\ a.v = 0

QueryValues == {NotGiven, Given(""), Given("0"), Given("0.0"), Given("48.85"),
                Given("2.35"), Given("abc")}

Requests ==
  {[lat |-> la, lon |-> lo, name |-> na] :
     la \in QueryValues, lo \in QueryValues, na \in {NotGiven, Given("Paris")}}

InitHandler ==
  /\ request \in Requests
  /\ pc = "start"
  /\ fetched = <<>>
  /\ response = None
  /\ now = 0
  /\ IdleScorer
  /\ IdlePeriods
  /\ IdleCountdown
  /\ IdleLibrary
  /\ IdlePresentation
  /\ IdleSearch

HandlerLat == parseFloat(GetOr(request.lat, "0"))
HandlerLon == parseFloat(GetOr(request.lon, "0"))

\* from the entry of GET to the first await, or to the 400 response
GET_Validate ==
  /\ pc = "start"
  /\ IF IsZero(HandlerLat) /\ IsZero(HandlerLon)
       THEN /\ response' = [status |-> 400, body |-> "Paramètres lat et lon requis"]
            /\ pc' = "done"
            /\ fetched' = fetched
       ELSE /\ pc' = "fonts"
            /\ fetched' = Append(fetched, [what |-> "fonts"])
            /\ response' = response
  /\ UNCHANGED <<request, now, periods, nextPeriod, countdownVars>>
  /\ UNCHANGED <<weather, solunar, currentTime, activity, scoring, provider>>
  /\ UNCHANGED <<libraryVars, presentationVars, searchVars>>

\* the four font files arrive and getWeatherData is called
GET_FontsLoaded ==
  /\ pc = "fonts"
  /\ pc' = "weather"
  /\ fetched' = Append(fetched, [what |-> "weather", lat |-> HandlerLat, lon |-> HandlerLon])
  /\ UNCHANGED <<request, response, now, periods, nextPeriod, countdownVars>>
  /\ UNCHANGED <<weather, solunar, currentTime, activity, scoring, provider>>
  /\ UNCHANGED <<libraryVars, presentationVars, searchVars>>

\* the weather data arrives: the solunar data is computed and the image returned
GET_WeatherLoaded ==
  /\ pc = "weather"
  /\ pc' = "done"
  /\ fetched' = Append(fetched, [what |-> "solunar", lat |-> HandlerLat, lon |-> HandlerLon])
  /\ response' = [status |-> 200, body |-> GetOr(request.name, "Position")]
  /\ UNCHANGED <<request, now, periods, nextPeriod, countdownVars>>
  /\ UNCHANGED <<weather, solunar, currentTime, activity, scoring, provider>>
  /\ UNCHANGED <<libraryVars, presentationVars, searchVars>>

\* a font or the weather request fails: the catch block answers 500
GET_Failed ==
  /\ pc \in {"fonts", "weather"}
  /\ pc' = "done"
  /\ response' = [status |-> 500, body |-> "Erreur lors de la génération"]
  /\ UNCHANGED <<request, fetched, now, periods, nextPeriod, countdownVars>>
  /\ UNCHANGED <<weather, solunar, currentTime, activity, scoring, provider>>
  /\ UNCHANGED <<libraryVars, presentationVars, searchVars>>

NextHandler == GET_Validate \/ GET_FontsLoaded \/ GET_WeatherLoaded \/ GET_Failed

SpecHandler == InitHandler /\ [][NextHandler]_vars

(***************************************************************************)
(* Properties of GET                                                       *)
(***************************************************************************)
LacksCoordinate == ~request.lat.present \/ ~request.lon.present

\* C15: a request that lacks lat or lacks lon is answered with status 400
\* and nothing is fetched or computed for it.
C15_CoordinatesRequired ==
  LacksCoordinate =>
    /\ \A i \in 1..Len(fetched) : fetched[i].what \notin {"weather", "solunar"}
    /\ pc = "done" => response.status = 400

\* what the handler does do: 400 exactly when both parse to 0
C15_BothZeroRejected ==
  (pc = "done" /\ IsZero(HandlerLat) /\ IsZero(HandlerLon)) =>
    (response.status = 400 /\ fetched = <<>>)

\* a request without lat and with lon = 2.35 is served
C15_LatMissingServed ==
  /\ ~request.lat.present
  /\ request.lon = Given("2.35")
  /\ pc = "done"
  /\ response.status = 200

(***************************************************************************)
(* Properties of the scorer's rules, over the locals held in `scoring`     *)
(***************************************************************************)
Qualifying(ps, t) ==
  {i \in 1..Len(ps) : (ps[i].start <= t /\ t <= ps[i].end) \/ ps[i].start > t}

\* the qualifying period that starts first in time
Earliest(ps, t) ==
  CHOOSE i \in Qualifying(ps, t) : \A j \in Qualifying(ps, t) : ps[i].start <= ps[j].start

\* the distance as the claim describes it
ChronologicalStatus(ps, t) ==
  IF Qualifying(ps, t) = {} THEN [minutes |-> Infinity, isOngoing |-> FALSE]
  ELSE IF ps[Earliest(ps, t)].start <= t THEN [minutes |-> 0, isOngoing |-> TRUE]
  ELSE [minutes |-> (ps[Earliest(ps, t)].start - t) \div 60000, isOngoing |-> FALSE]

\* C16: the solunar distance of the scorer is that of the chronologically
\* first period that is ongoing (0, ongoing) or upcoming (whole minutes to
\* its start), past periods being skipped, and infinite when no period
\* qualifies; for every list the scorer receives, the minor list of
\* getSolunarData included.
C16_DistanceFromEarliestPeriod ==
  Scored =>
    /\ scoring.majorStatus = ChronologicalStatus(solunar.major, currentTime)
    /\ scoring.minorStatus = ChronologicalStatus(solunar.minor, currentTime)

\* the same statement for lists that are in order of start
C16_OnOrderedLists ==
  Scored =>
    /\ StartsAscend(solunar.major) =>
         scoring.majorStatus = ChronologicalStatus(solunar.major, currentTime)
    /\ StartsAscend(solunar.minor) =>
         scoring.minorStatus = ChronologicalStatus(solunar.minor, currentTime)

\* what rule number r (1 pressure .. 5 cloud cover) added to the score, how
\* many factors it pushed, and the factor it pushed
RuleDelta(r) == scoring.scores[r + 1] - scoring.scores[r]
RulePushes(r) == scoring.factorCounts[r + 1] - scoring.factorCounts[r]
RuleFactor(r) == scoring.factors[scoring.factorCounts[r + 1]]
RuleFired(r, delta, label) ==
  RuleDelta(r) = delta /\ RulePushes(r) = 1 /\ RuleFactor(r) = label
RuleSilent(r) == RuleDelta(r) = 0 /\ RulePushes(r) = 0

MajorNear(m) == scoring.majorStatus.isOngoing \/ scoring.majorStatus.minutes <= m
MinorNear(m) == scoring.minorStatus.isOngoing \/ scoring.minorStatus.minutes <= m

\* C17: at most one solunar sub-rule contributes, major before minor: +2
\* when a major period is ongoing or at most 30 minutes away, else +1 when
\* it is at most 120 minutes away, else +1 when a minor period is ongoing
\* or at most 30 minutes away, else 0; never more than +2.
C17_OneSolunarSubRule ==
  Scored =>
    /\ RulePushes(2) \in {0, 1}
    /\ RuleDelta(2) \in 0..2
    /\ MajorNear(30) => RuleFired(2, 2, "Période majeure")
    /\ (~MajorNear(30) /\ MajorNear(120)) => RuleFired(2, 1, "Majeure proche")
    /\ (~MajorNear(120) /\ MinorNear(30)) => RuleFired(2, 1, "Période mineure")
    /\ (~MajorNear(120) /\ ~MinorNear(30)) => RuleSilent(2)

\* a minor period is ongoing while a major period is 120 minutes away: only
\* the major sub-rule counts
C17_Witness ==
  /\ Scored
  /\ scoring.minorStatus.isOngoing
  /\ scoring.majorStatus.minutes = 120
  /\ RuleFired(2, 1, "Majeure proche")

GoldenWindows == getGoldenHours(solunar.sun.rise, solunar.sun.set)
InMorningWindow ==
  GoldenWindows.morningStart <= currentTime /\ currentTime <= GoldenWindows.morningEnd
InEveningWindow ==
  GoldenWindows.eveningStart <= currentTime /\ currentTime <= GoldenWindows.eveningEnd

\* C18: isGoldenHour holds exactly when sunrise <= now <= sunrise + 2 h or
\* sunset - 2 h <= now <= sunset, i.e. when now lies in a window of
\* getGoldenHours; the rule then adds +1 once, the morning factor winning
\* when now lies in both windows; with sunrise 06:00, 07:59:59 is golden
\* (morning) and 08:00:01 is not.
C18_GoldenHourWindows ==
  Scored =>
    /\ activity.isGoldenHour <=> (InMorningGolden \/ InEveningGolden)
    /\ activity.isGoldenHour <=> (InMorningWindow \/ InEveningWindow)
    /\ InMorningGolden => RuleFired(3, 1, "Golden hour matin")
    /\ (~InMorningGolden /\ InEveningGolden) => RuleFired(3, 1, "Golden hour soir")
    /\ (~InMorningGolden /\ ~InEveningGolden) => RuleSilent(3)
    /\ (solunar.sun.rise = HMS(6, 0, 0) /\ currentTime = HMS(7, 59, 59)) =>
         (activity.isGoldenHour /\ scoring.goldenHour.type = "morning")
    /\ (solunar.sun.rise = HMS(6, 0, 0) /\ currentTime = HMS(8, 0, 1) /\ ~InEveningGolden) =>
         ~activity.isGoldenHour

\* now lies in both windows and the morning factor is the one pushed
C18_Witness ==
  /\ Scored
  /\ InMorningGolden
  /\ InEveningGolden
  /\ activity.isGoldenHour
  /\ RuleFired(3, 1, "Golden hour matin")

C18_ExampleJustInside ==
  Scored /\ solunar.sun.rise = HMS(6, 0, 0) /\ currentTime = HMS(7, 59, 59) /\ ~InEveningGolden
C18_ExampleJustOutside ==
  Scored /\ solunar.sun.rise = HMS(6, 0, 0) /\ currentTime = HMS(8, 0, 1) /\ ~InEveningGolden
C18_AtSunset ==
  Scored /\ currentTime = solunar.sun.set /\ activity.isGoldenHour

\* C19: the pressure rule adds +2 for stable, +1 for rising, -1 for
\* falling, each with its own factor, and for any other trend adds 0 and
\* pushes nothing.
C19_PressureRule ==
  Scored =>
    /\ weather.pressureTrend = "stable" => RuleFired(1, 2, "Pression stable")
    /\ weather.pressureTrend = "rising" => RuleFired(1, 1, "Pression en hausse")
    /\ weather.pressureTrend = "falling" => RuleFired(1, -1, "Pression en baisse")
    /\ weather.pressureTrend \notin {"stable", "rising", "falling"} => RuleSilent(1)

C19_Witness ==
  Scored /\ weather.pressureTrend = "rising" /\ RuleFired(1, 1, "Pression en hausse")

C19_Unrecognised ==
  Scored /\ weather.pressureTrend = "unknown" /\ RuleSilent(1)

\* C20: the wind rule adds +1 exactly when 8 <= windSpeed <= 20, -1 exactly
\* when windSpeed > 30, and 0 for every other speed (30 included).
C20_WindRule ==
  Scored =>
    /\ (RuleDelta(4) = 1) <=> (8 <= weather.current.windSpeed /\ weather.current.windSpeed <= 20)
    /\ (RuleDelta(4) = -1) <=> (weather.current.windSpeed > 30)
    /\ RuleDelta(4) \in {-1, 0, 1}
    /\ RuleDelta(4) = 1 => RuleFired(4, 1, "Vent favorable")
    /\ RuleDelta(4) = -1 => RuleFired(4, -1, "Vent trop fort")
    /\ RuleDelta(4) = 0 => RuleSilent(4)

\* exactly 30: neither branch
C20_Witness ==
  Scored /\ weather.current.windSpeed = 30 /\ RuleSilent(4)

(***************************************************************************)
(* The minor list of getSolunarData as the helper and the scorer read it   *)
(***************************************************************************)
InsideMinor ==
  \E i \in 1..Len(solunar.minor) :
    solunar.minor[i].start <= currentTime /\ currentTime <= solunar.minor[i].end

\* C26: for every result of getSolunarData (moonrise and moonset in either
\* order) and every now inside one of its minor periods,
\* getNextPeriod(solunar.minor, now) reports ongoing and the scorer's minor
\* distance is 0 with ongoing = true: an ongoing minor period is never
\* reported as a later upcoming one.
C26_OngoingMinorReported ==
  (Scored /\ InsideMinor) =>
    /\ getNextPeriod(solunar.minor, currentTime) # Null
    /\ getNextPeriod(solunar.minor, currentTime).status = "ongoing"
    /\ scoring.minorStatus = [minutes |-> 0, isOngoing |-> TRUE]

\* the same statement for the results whose minor list is in order of start
C26_OnOrderedMinor ==
  (Scored /\ InsideMinor /\ StartsAscend(solunar.minor)) =>
    /\ getNextPeriod(solunar.minor, currentTime).status = "ongoing"
    /\ scoring.minorStatus = [minutes |-> 0, isOngoing |-> TRUE]

\* the moonset period is ongoing and the moonrise period is what is reported
C26_LaterPeriodReported ==
  /\ Scored
  /\ InsideMinor
  /\ getNextPeriod(solunar.minor, currentTime).status = "upcoming"
  /\ getNextPeriod(solunar.minor, currentTime).period.type = "moonrise"
  /\ ~scoring.minorStatus.isOngoing

(***************************************************************************)
(* getMinutesUntilPeriod and getNextPeriod on the same list and instant    *)
(***************************************************************************)
BothRead == nextPeriod # None /\ minutesUntil # None

\* C28: getMinutesUntilPeriod and getNextPeriod agree on every period list
\* and every now: ongoing = true iff status ongoing; a finite non-ongoing
\* distance iff upcoming, the distance being the whole minutes until the
\* start of the period getNextPeriod returns; infinity iff null.
C28_ScorerAndHelperAgree ==
  BothRead =>
    /\ minutesUntil.isOngoing <=> (nextPeriod.status = "ongoing")
    /\ (~minutesUntil.isOngoing /\ minutesUntil.minutes < Infinity) <=>
         (nextPeriod.status = "upcoming")
    /\ (nextPeriod.status = "upcoming") =>
         minutesUntil.minutes = (nextPeriod.period.start - now) \div 60000
    /\ (minutesUntil.minutes = Infinity) <=> (nextPeriod = Null)
    /\ minutesUntil.isOngoing => minutesUntil.minutes = 0

\* a list out of order, its second period containing now: both stop at the
\* first one, more than three hours ahead
C28_Witness ==
  /\ BothRead
  /\ Len(periods) = 2
  /\ periods[2].start <= now
  /\ now <= periods[2].end
  /\ nextPeriod = [status |-> "upcoming", period |-> periods[1]]
  /\ minutesUntil = [minutes |-> 225, isOngoing |-> FALSE]

\* the other outcomes are compared too
C28_BothOngoingAtEnd ==
  BothRead /\ minutesUntil.isOngoing /\ nextPeriod.status = "ongoing"
    /\ nextPeriod.period.end = now /\ nextPeriod.period.start < now
C28_BothNone == BothRead /\ periods # <<>> /\ nextPeriod = Null /\ minutesUntil.minutes = Infinity
C28_UnderAMinute ==
  BothRead /\ nextPeriod.status = "upcoming" /\ minutesUntil.minutes = 0

(***************************************************************************)
(* Presentation helpers (lib/helpers.ts): the next period on display       *)
(*                                                                         *)
(* Every request reads the clock once and builds the display of the next   *)
(* period from it; the clock only advances between requests.               *)
(***************************************************************************)
\* date.getHours() and date.getMinutes(), the reference day starting at
\* local midnight
getHours(date) == (date \div HourMs) % 24
getMinutes(date) == (date \div MinuteMs) % 60

formatTime(date) ==
  LET hours == getHours(date)
      minutes == getMinutes(date)
  IN IF minutes = 0 THEN NumberToString(hours) \o "h"
     ELSE NumberToString(hours) \o "h" \o PadStart2(NumberToString(minutes))

\* the placeholder shown when there is no period (an em dash in the source)
EmDash == "-"

\* slip: the two instants handed to getCountdown are exchanged
formatSolunarPeriodSwapped(period, t, status) ==
  IF period = Null \/ status = "null" THEN [time |-> EmDash, countdown |-> ""]
  ELSE IF status = "ongoing"
    THEN [time |-> formatTime(period.start), countdown |-> "En cours"]
  ELSE [time |-> formatTime(period.start), countdown |-> getCountdown(period.start, t)]

\* status is "upcoming", "ongoing" or "null"
formatSolunarPeriod(period, t, status) ==
  IF period = Null \/ status = "null" THEN [time |-> EmDash, countdown |-> ""]
  ELSE IF status = "ongoing"
    THEN [time |-> formatTime(period.start), countdown |-> "En cours"]
  ELSE [time |-> formatTime(period.start), countdown |-> getCountdown(t, period.start)]

\* next?.period || null and next?.status || null
PeriodOrNull(next) == IF next = Null THEN Null ELSE next.period
StatusOrNull(next) == IF next = Null THEN "null" ELSE next.status

InitClock ==
  /\ periods \in SeqsUpTo(HelperCandidates, MaxPeriods)
  /\ now \in HelperTimes
  /\ nextPeriod = None
  /\ display = None
  /\ minutesUntil = None
  /\ IdleScorer
  /\ IdleCountdown
  /\ IdleHandler
  /\ IdleLibrary
  /\ IdleSearch

\* one request, at an instant not before the previous one
PresentNextPeriod ==
  \E t \in HelperTimes :
    /\ t >= now
    /\ now' = t
    /\ nextPeriod' = getNextPeriod(periods, t)
    /\ display' = formatSolunarPeriod(PeriodOrNull(nextPeriod'), t, StatusOrNull(nextPeriod'))
    /\ UNCHANGED <<periods, minutesUntil>>
    /\ UNCHANGED <<weather, solunar, currentTime, activity, provider>>
    /\ UNCHANGED <<scoring, countdownVars, handlerVars, libraryVars, searchVars>>

NextClock == PresentNextPeriod

SpecClock == InitClock /\ [][NextClock]_vars

(***************************************************************************)
(* Properties of the display over an advancing clock                       *)
(***************************************************************************)
Presented == display # None

ReportedOngoing(p) == nextPeriod = [status |-> "ongoing", period |-> p]
ReportedUpcoming(p) == nextPeriod = [status |-> "upcoming", period |-> p]

\* C29: for a fixed period list and a now that only advances, the result of
\* getNextPeriod never moves backwards: once it is null it is null at every
\* later now, and once a period p has been reported ongoing no later call
\* reports p as upcoming; and the display formatSolunarPeriod builds from a
\* getNextPeriod result never shows the past marker as its countdown.
C29_NeverBackwards ==
  /\ [][nextPeriod = Null => nextPeriod' = Null]_vars
  /\ \A p \in HelperCandidates : [](ReportedOngoing(p) => [](~ReportedUpcoming(p)))
  /\ [](Presented => display.countdown # "passé")

\* the first period is over and the display counts down to the second one
C29_Witness ==
  /\ Presented
  /\ periods = <<[start |-> HMS(10, 0, 0), end |-> HMS(10, 30, 0), type |-> "moonrise"],
                 [start |-> HMS(14, 0, 0), end |-> HMS(14, 30, 0), type |-> "moonset"]>>
  /\ now = HMS(10, 30, 1)
  /\ ReportedUpcoming(periods[2])
  /\ display = [time |-> "14h", countdown |-> "dans 3h29"]

\* the other displays are built too
C29_Ongoing ==
  Presented /\ nextPeriod # Null /\ nextPeriod.status = "ongoing"
    /\ display = [time |-> "10h15", countdown |-> "En cours"]
C29_NoPeriodLeft ==
  Presented /\ periods # <<>> /\ nextPeriod = Null
    /\ display = [time |-> EmDash, countdown |-> ""]
C29_StartsNow ==
  Presented /\ nextPeriod # Null /\ nextPeriod.period.start = now

(***************************************************************************)
(* LocationSearch component                                                *)
(*                                                                         *)
(* `component` holds the useState fields, `timer` the pending setTimeout    *)
(* of the debounce effect (with the query its closure captured), and       *)
(* `pending` the number of geocoding requests in flight for each query.    *)
(* A request is not cancelled by anything: the effect's cleanup only       *)
(* clears the timer.                                                       *)
(***************************************************************************)
\* most geocoding requests in flight at once
MaxInFlight == 2

\* what the user types, and the names of the places the service knows
TypedQueries == {"", "p", "pa", "par", "px"}
Geocode(q) ==
  CASE q = "pa" -> <<"Paris", "Pau">>
    [] q = "par" -> <<"Paris">>
    [] q = "Paris" -> <<"Paris">>
    [] q = "Pau" -> <<"Pau">>
    [] OTHER -> <<>>
Queries == TypedQueries \cup {"Paris", "Pau"}

Armed(q) == [status |-> "armed", query |-> q]

InFlight == {q \in Queries : pending[q] > 0}
RECURSIVE SumOver(_, _)
SumOver(f, S) ==
  IF S = {} THEN 0
  ELSE LET x == CHOOSE y \in S : TRUE IN f[x] + SumOver(f, S \ {x})

InitSearch ==
  /\ component = [query |-> "", results |-> <<>>, isLoading |-> FALSE,
                  showDropdown |-> FALSE, selectedIndex |-> -1]
  /\ timer = None
  /\ pending = [q \in Queries |-> 0]
  /\ now = 0
  /\ IdleScorer
  /\ IdlePeriods
  /\ IdleCountdown
  /\ IdleHandler
  /\ IdleLibrary
  /\ IdlePresentation

\* the debounce effect, run after a render in which query changed to q: the
\* previous effect's cleanup clears its timer, then a short query empties
\* the list and closes the dropdown, and any other query arms a new timer
EffectComponent(c, q) ==
  IF Len(q) < 2 THEN [c EXCEPT !.results = <<>>, !.showDropdown = FALSE] ELSE c
EffectTimer(q) == IF Len(q) < 2 THEN None ELSE Armed(q)

SearchFrame ==
  /\ UNCHANGED <<now, periods, nextPeriod, countdownVars, handlerVars>>
  /\ UNCHANGED <<weather, solunar, currentTime, activity, scoring, provider>>
  /\ UNCHANGED <<libraryVars, presentationVars>>

\* onChange: setQuery(e.target.value)
OnChange ==
  \E q \in TypedQueries :
    /\ q # component.query
    /\ component' = EffectComponent([component EXCEPT !.query = q], q)
    /\ timer' = EffectTimer(q)
    /\ UNCHANGED pending
    /\ SearchFrame

\* the 300 ms have passed: setIsLoading(true) and the request leaves
TimerFires ==
  /\ timer # None
  /\ SumOver(pending, Queries) < MaxInFlight
  /\ component' = [component EXCEPT !.isLoading = TRUE]
  /\ pending' = [pending EXCEPT ![timer.query] = @ + 1]
  /\ timer' = None
  /\ SearchFrame

\* the answer to a request for q arrives with results
ResponseWithResults ==
  \E q \in InFlight :
    /\ Geocode(q) # <<>>
    /\ component' = [component EXCEPT !.results = Geocode(q), !.showDropdown = TRUE,
                                      !.selectedIndex = -1, !.isLoading = FALSE]
    /\ pending' = [pending EXCEPT ![q] = @ - 1]
    /\ UNCHANGED timer
    /\ SearchFrame

\* the answer carries no results, or the request fails
ResponseWithoutResults ==
  \E q \in InFlight :
    /\ component' = [component EXCEPT !.results = <<>>, !.isLoading = FALSE]
    /\ pending' = [pending EXCEPT ![q] = @ - 1]
    /\ UNCHANGED timer
    /\ SearchFrame

\* handleSelect(location): setQuery(location.name), setShowDropdown(false)
Selected(name) ==
  IF name = component.query
    THEN /\ component' = [component EXCEPT !.showDropdown = FALSE]
         /\ UNCHANGED timer
  ELSE /\ component' = EffectComponent([component EXCEPT !.query = name,
                                                        !.showDropdown = FALSE], name)
       /\ timer' = EffectTimer(name)

\* a click on an entry of the dropdown
HandleSelect ==
  \E i \in 1..Len(component.results) :
    /\ component.showDropdown
    /\ Selected(component.results[i])
    /\ UNCHANGED pending
    /\ SearchFrame

\* handleKeyDown, for the four keys it handles
HandleKeyDown ==
  /\ component.showDropdown
  /\ component.results # <<>>
  /\ \E key \in {"ArrowDown", "ArrowUp", "Enter", "Escape"} :
       CASE key = "ArrowDown" ->
              /\ component' =
                   [component EXCEPT !.selectedIndex =
                      IF @ < Len(component.results) - 1 THEN @ + 1 ELSE @]
              /\ UNCHANGED timer
         [] key = "ArrowUp" ->
              /\ component' = [component EXCEPT !.selectedIndex = IF @ > 0 THEN @ - 1 ELSE @]
              /\ UNCHANGED timer
         [] key = "Enter" ->
              /\ component.selectedIndex >= 0
              /\ Selected(component.results[component.selectedIndex + 1])
         [] key = "Escape" ->
              /\ component' = [component EXCEPT !.showDropdown = FALSE]
              /\ UNCHANGED timer
  /\ UNCHANGED pending
  /\ SearchFrame

\* onFocus: results.length > 0 && setShowDropdown(true)
OnFocus ==
  /\ component.results # <<>>
  /\ component' = [component EXCEPT !.showDropdown = TRUE]
  /\ UNCHANGED <<timer, pending>>
  /\ SearchFrame

\* a mousedown outside the input and the dropdown
HandleClickOutside ==
  /\ component' = [component EXCEPT !.showDropdown = FALSE]
  /\ UNCHANGED <<timer, pending>>
  /\ SearchFrame

NextSearch ==
  \/ OnChange
  \/ TimerFires
  \/ ResponseWithResults
  \/ ResponseWithoutResults
  \/ HandleSelect
  \/ HandleKeyDown
  \/ OnFocus
  \/ HandleClickOutside

SpecSearch == InitSearch /\ [][NextSearch]_vars

(***************************************************************************)
(* Properties of LocationSearch                                            *)
(***************************************************************************)
\* a step in which the answer to a request for q is handled
Answered(q) == pending'[q] < pending[q]

\* C30: the result list belongs to the most recently typed query: under any
\* interleaving of keystrokes, the debounce timer and geocoding responses, a
\* response to an older query never replaces the results after the query
\* has changed, and never fills the list or opens the dropdown after the
\* query has dropped below 2 characters.
C30_ResponsesOfCurrentQuery ==
  [][\A q \in Queries :
       Answered(q) =>
         /\ (q # component.query) =>
              /\ component'.results = component.results
              /\ component'.showDropdown = component.showDropdown
         /\ (Len(component.query) < 2) =>
              /\ component'.results = <<>>
              /\ ~component'.showDropdown]_vars

\* what the debounce alone ensures: a request leaves only for the query
\* on screen when its timer fires
C30_RequestsOfCurrentQuery ==
  [][\A q \in Queries : (pending'[q] > pending[q]) => (q = component.query)]_vars

\* the list shown is the answer to another query than the one on screen
C30_StaleList ==
  /\ component.query = "par"
  /\ component.results = Geocode("pa")
  /\ component.showDropdown
  /\ pending["pa"] = 0

\* the list is filled and open under a query of one character
C30_ListUnderShortQuery ==
  /\ component.query = "p"
  /\ component.results # <<>>
  /\ component.showDropdown

====
